---- MODULE Spec2Model ----
(***************************************************************************)
(* Resource-lifetime and outline-geometry model of freetype.py, the ctypes *)
(* wrapper around the FreeType engine.                                     *)
(*                                                                         *)
(* Engine side: a heap of engine allocations (faces, glyphs, outlines,     *)
(* bitmaps, strokers), each with the number of release calls issued        *)
(* against it, and the glyph handle cells the engine writes through.       *)
(* Python side: the wrapper objects with their ftobj / owner / _lib        *)
(* attributes, the one Library object and its handle.                      *)
(* Every method is one action; "last" records what the latest method call  *)
(* did (engine calls in code order, the exception it raised).              *)
(***************************************************************************)
EXTENDS Integers, Sequences, FiniteSets, TLC

\* ---------------------------------------------------------------- bounds
\* engine allocations made in one run
MaxRes == 5
\* wrapper objects constructed in one run
MaxWr == 3
\* largest point count FT_Outline_New grants (stands for the engine's limit)
MaxPoints == 3

Res == 1..MaxRes
Wr == 1..MaxWr

\* ------------------------------------------------------------- constants
\* CURVEPT_ON, CURVEPT_OFF2: tags of control points
CURVEPT_ON == 1
CURVEPT_OFF2 == 0

\* ---------------------------------------------------------------- values
\* the contents of an FT.Outline structure: counts and the three arrays
EmptyOl == [n_points |-> 0, n_contours |-> 0, points |-> << >>, tags |-> << >>,
            contours |-> << >>]

\* outlines the engine may put into a glyph slot on a load
Shapes == {
    [n_points |-> 1, n_contours |-> 1, points |-> <<11>>, tags |-> <<CURVEPT_ON>>,
     contours |-> <<0>>],
    [n_points |-> 2, n_contours |-> 1, points |-> <<21, 22>>,
     tags |-> <<CURVEPT_ON, CURVEPT_OFF2>>, contours |-> <<1>>],
    [n_points |-> 2, n_contours |-> 2, points |-> <<31, 32>>,
     tags |-> <<CURVEPT_ON, CURVEPT_ON>>, contours |-> <<0, 1>>] }

\* a wrapper slot that holds no object (never constructed, or reclaimed)
NoWr == [kind |-> "none", st |-> "none", ftobj |-> 0, owner |-> 0, lib |-> "None",
         buffer |-> FALSE]
DeadWr == [NoWr EXCEPT !.st = "dead"]

\* what "last" keeps of the state before the call, for the calls that need it
NoPre == [a |-> EmptyOl, b |-> EmptyOl, old |-> 0, arg |-> 0, cellv |-> 0, n |-> 0,
          mode |-> "none", inp |-> << >>, args |-> << >>, was |-> << >>, ret |-> << >>,
          sts |-> << >>, exc |-> << >>]

\* a font file as the engine sees it: FACE_FLAG_SCALABLE, and the charmap as the
\* (char code, glyph index) pairs FT_Get_First_Char / FT_Get_Next_Char report
DefaultFont == [scalable |-> TRUE, charmap |-> <<<<65, 1>>, <<66, 2>>>>]

\* the active size of a face on which FT_Set_Char_Size has not succeeded
NoSize == << >>

\* a stroker as FT_Stroker_New leaves it: nothing set, no border parsed
NoStroke == [set |-> FALSE, left |-> EmptyOl, right |-> EmptyOl]

\* generator objects made in one run
MaxGen == 2
Gen == 1..MaxGen

\* a generator slot that holds no generator
NoGen == [st |-> "none", face |-> 0, code |-> 0, index |-> 0, out |-> << >>]

\* Python float values are kept exact, as fractions in lowest terms
Abs(n) == IF n < 0 THEN -n ELSE n

RECURSIVE GCD(_, _)
GCD(a, b) == IF b = 0 THEN a ELSE GCD(b, a % b)

\* the float n / d, for d # 0
Float(n, d) ==
    LET g == GCD(Abs(n), Abs(d))
        sgn == IF d < 0 THEN -1 ELSE 1
    IN  [num |-> (sgn * n) \div g, den |-> (sgn * d) \div g]

\* float +, -, *, /
FloatAdd(a, b) ==
    LET g == GCD(a.den, b.den)
    IN  Float(a.num * (b.den \div g) + b.num * (a.den \div g), (a.den \div g) * b.den)
FloatSub(a, b) == FloatAdd(a, [num |-> -b.num, den |-> b.den])
FloatMul(a, b) == Float(a.num * b.num, a.den * b.den)
FloatDiv(a, b) == Float(a.num * b.den, a.den * b.num)

\* no number picked for conversion to fixed point
NoFix == [shift |-> 0, x |-> Float(0, 1), i |-> << >>, back |-> << >>]

\* no Matrix picked
NoMatrix == [m |-> << >>, inv |-> << >>, prod |-> << >>, err |-> "none"]

VARIABLES
    kind,       \* engine heap: what each allocation is ("free" when unallocated)
    rel,        \* engine heap: release calls issued against each allocation
    fmt,        \* format of a face's glyph slot / of an engine glyph
    ol,         \* FT.Outline contents of an outline / a glyph slot / a glyph
    cell,       \* FT.Glyph handle cells: the engine glyph each one holds
    wr,         \* the Python wrapper objects
    libAlive,   \* the Library object exists (weak references to it resolve)
    libHandle,  \* Library.lib.value != None
    last,       \* the latest method call: what it issued and raised
    font,       \* engine face: what the font file holds (scalable flag, charmap)
    size,       \* engine face: the active character size, as last set
    strk,       \* engine stroker: whether set, and the borders parsed so far
    gen,        \* the generator objects made by Face.char_glyphs
    fc,         \* the module global fc: the Fontconfig library, or None
    bmp,        \* the FT.Bitmap structure and pixel bytes of the Bitmap being drawn
    fix,        \* a float, the fixed-point format it goes through, and the results
    mat         \* a Matrix, its inverse and their product, once computed

vars == <<kind, rel, fmt, ol, cell, wr, libAlive, libHandle, last, font, size, strk, gen,
          fc, bmp, fix, mat>>

\* the state that only the Face and Stroker methods below touch
more == <<font, size, strk, gen>>

\* the state that the methods of Face, Outline, Glyph, Bitmap and Stroker leave alone
pure == <<fc, bmp, fix, mat>>

\* ------------------------------------------------------------ heap helpers
FreeRes == {r \in Res : kind[r] = "free"}
FreeWr == {w \in Wr : wr[w].st = "none"}
Min(S) == CHOOSE x \in S : \A y \in S : x <= y
NewRes == Min(FreeRes)
NewWr == Min(FreeWr)
Live(w) == wr[w].st = "live"
IsA(w, k) == Live(w) /\ wr[w].kind = k

\* weakref dereference: self._lib() for what the weak reference was made to
Deref(l) == IF l \in {"Library", "handle"} /\ libAlive THEN l ELSE "None"

Rec(op, w, calls, err, pre) ==
    [op |-> op, w |-> w, calls |-> calls, err |-> err, late |-> ~libHandle, pre |-> pre]

\* a live wrapper object with the given attributes (0 / "None" for None)
MkWr(k, ftobj, owner, lib) ==
    [kind |-> k, st |-> "live", ftobj |-> ftobj, owner |-> owner, lib |-> lib,
     buffer |-> FALSE]

\* the owner attribute of a view made through Face.glyph: a GlyphSlot object of
\* its own (GlyphSlot holds its slot pointer and nothing else)
SlotOwner == MaxWr + 1

\* a wrapper can be reclaimed once no live wrapper holds a strong reference to it
Unreferenced(w) == \A v \in Wr : Live(v) => wr[v].owner # w

\* the wrapper after its destructor ran: reclaimed (gc) or called explicitly
AfterDel(w, gc, ftobj) == IF gc THEN DeadWr ELSE [wr[w] EXCEPT !.ftobj = ftobj]

\* storage that has been released, or whose library has been shut down
Dangling(r) == r # 0 /\ (rel[r] > 0 \/ ~libHandle)

\* one more release call issued against allocation r
Released(r) == [rel EXCEPT ![r] = IF @ < 2 THEN @ + 1 ELSE @]

\* status values an engine call may return: 0, or an engine error code
Status == {0, 6}

\* FTException(code): self.args, the message with the code formatted into it
FTException(code) == <<"FreeType error %d", code>>

\* check(sts): the exception it raises, none for a zero status
Check(sts) == IF sts # 0 THEN <<FTException(sts)>> ELSE << >>

\* what "last" keeps of a call whose one engine status went through check
Checked(pre, sts) == [pre EXCEPT !.sts = <<sts>>, !.exc = Check(sts)]

\* ----------------------------------------------------------- fixed point
\* round keeping the integer part only
RoundDown(n, d) == n \div d

\* round(n / d) for d > 0: the nearest integer, a tie going to the even one
Round(n, d) ==
    LET q == n \div d
        r == n % d
    IN  IF 2 * r < d THEN q
        ELSE IF 2 * r > d THEN q + 1
        ELSE IF q % 2 = 0 THEN q ELSE q + 1

\* make_fixed_conv(shift): conv_to = lambda x : round(x * factor)
Conv_to(shift, x) ==
    LET factor == 2 ^ shift
        scaled == FloatMul(x, Float(factor, 1))
    IN  Round(scaled.num, scaled.den)

\* make_fixed_conv(shift): conv_from = lambda i : i / factor
Conv_from(shift, i) == Float(i, 2 ^ shift)

\* to_f26_6(x) / to_f16_16(x) on the number picked
ToFixed ==
    /\ fix # NoFix /\ fix.i = << >>
    /\ fix' = [fix EXCEPT !.i = <<Conv_to(fix.shift, fix.x)>>]
    /\ UNCHANGED <<kind, rel, fmt, ol, cell, wr, libAlive, libHandle, last, more, fc, bmp, mat>>

\* from_f26_6(i) / from_f16_16(i) on the fixed-point value made
FromFixed ==
    /\ fix.i # << >> /\ fix.back = << >>
    /\ fix' = [fix EXCEPT !.back = <<Conv_from(fix.shift, fix.i[1])>>]
    /\ UNCHANGED <<kind, rel, fmt, ol, cell, wr, libAlive, libHandle, last, more, fc, bmp, mat>>

\* ---------------------------------------------------------------- Matrix
\* float unary minus
FloatNeg(a) == [num |-> -a.num, den |-> a.den]

\* Matrix.__mul__ by a Matrix
MatrixMul(m1, m2) ==
    [xx |-> FloatAdd(FloatMul(m1.xx, m2.xx), FloatMul(m1.xy, m2.yx)),
     xy |-> FloatAdd(FloatMul(m1.xx, m2.xy), FloatMul(m1.xy, m2.yy)),
     yx |-> FloatAdd(FloatMul(m1.yx, m2.xx), FloatMul(m1.yy, m2.yx)),
     yy |-> FloatAdd(FloatMul(m1.yx, m2.xy), FloatMul(m1.yy, m2.yy))]

\* Matrix.det
MatrixDet(m) == FloatSub(FloatMul(m.xx, m.yy), FloatMul(m.xy, m.yx))

\* Matrix.inv with the off-diagonal entries keeping their sign
MatrixInvUnsigned(m) ==
    LET det == MatrixDet(m)
    IN  [xx |-> FloatDiv(m.yy, det), xy |-> FloatDiv(m.xy, det),
         yx |-> FloatDiv(m.yx, det), yy |-> FloatDiv(m.xx, det)]

\* Matrix.inv, for a determinant that is not zero
MatrixInv(m) ==
    LET det == MatrixDet(m)
    IN  [xx |-> FloatDiv(m.yy, det), xy |-> FloatDiv(FloatNeg(m.xy), det),
         yx |-> FloatDiv(FloatNeg(m.yx), det), yy |-> FloatDiv(m.xx, det)]

\* M.inv() on the Matrix picked: the division by a zero determinant raises
Inv ==
    /\ mat.m # << >> /\ mat.inv = << >> /\ mat.err = "none"
    /\ mat' = IF MatrixDet(mat.m[1]).num = 0
              THEN [mat EXCEPT !.err = "ZeroDivisionError"]
              ELSE [mat EXCEPT !.inv = <<MatrixInv(mat.m[1])>>]
    /\ UNCHANGED <<kind, rel, fmt, ol, cell, wr, libAlive, libHandle, last, more, fc, bmp, fix>>

\* M * M.inv()
MulInv ==
    /\ mat.inv # << >> /\ mat.prod = << >>
    /\ mat' = [mat EXCEPT !.prod = <<MatrixMul(mat.m[1], mat.inv[1])>>]
    /\ UNCHANGED <<kind, rel, fmt, ol, cell, wr, libAlive, libHandle, last, more, fc, bmp, fix>>

\* ------------------------------------------------------------------ Init
\* a Library constructed, nothing else yet
Started ==
    /\ kind = [r \in Res |-> "free"]
    /\ rel = [r \in Res |-> 0]
    /\ fmt = [r \in Res |-> "none"]
    /\ ol = [r \in Res |-> EmptyOl]
    /\ cell = [r \in Res |-> 0]
    /\ wr = [w \in Wr |-> NoWr]
    /\ libAlive = TRUE
    /\ libHandle = TRUE
    /\ last = Rec("Library.__init__", 0, <<<<"FT_Init_FreeType", 0>>>>, "none", NoPre)
    /\ font = [r \in Res |-> DefaultFont]
    /\ size = [r \in Res |-> NoSize]
    /\ strk = [r \in Res |-> NoStroke]
    /\ gen = [g \in Gen |-> NoGen]

\* fc = ct.cdll.LoadLibrary("libfontconfig.so.1") having succeeded
FcLoaded == "libfontconfig.so.1"

\* no Bitmap picked for drawing
NoBitmap == [pixel_mode |-> 0, width |-> 0, rows |-> 0, pitch |-> 0, bytes |-> << >>,
             array |-> FALSE]

Init == Started /\ fc = FcLoaded /\ bmp = NoBitmap /\ fix = NoFix /\ mat = NoMatrix

\* --------------------------------------------------------------- Library
\* Library.__del__, called explicitly (the object stays) or by the runtime
\* reclaiming the object (gc): weak references to it are dead afterwards.
\* sts is the status FT_Done_FreeType returns; the code drops it.
LibraryDelStatus(gc, sts) ==
    /\ libAlive
    /\ libHandle \/ sts = 0
    /\ libHandle' = FALSE
    /\ libAlive' = ~gc
    /\ last' = Rec("Library.__del__", 0,
                   IF libHandle THEN <<<<"FT_Done_FreeType", 0>>>> ELSE << >>,
                   "none",
                   IF libHandle THEN [NoPre EXCEPT !.sts = <<sts>>] ELSE NoPre)
    /\ UNCHANGED <<kind, rel, fmt, ol, cell, wr, more, pure>>

\* Library.__del__ with the engine shutting down cleanly
LibraryDel(gc) == LibraryDelStatus(gc, 0)

\* Library.new_face(filename) on a font file of the given contents
NewFaceFile(file, sts) ==
    /\ libAlive
    /\ IF sts # 0 \/ ~libHandle
       THEN /\ last' = Rec("Library.new_face", 0, <<<<"FT_New_Face", 0>>>>,
                           "FTException", Checked(NoPre, sts))
            /\ UNCHANGED <<kind, rel, fmt, ol, cell, wr, font>>
       ELSE /\ FreeRes # {} /\ FreeWr # {}
            /\ kind' = [kind EXCEPT ![NewRes] = "face"]
            /\ wr' = [wr EXCEPT ![NewWr] = MkWr("Face", NewRes, 0, "Library")]
            /\ last' = Rec("Library.new_face", NewWr, <<<<"FT_New_Face", NewRes>>>>,
                           "none", Checked(NoPre, sts))
            /\ font' = [font EXCEPT ![NewRes] = file]
            /\ UNCHANGED <<rel, fmt, ol, cell>>
    /\ UNCHANGED <<libAlive, libHandle, size, strk, gen, pure>>

\* Library.new_face on the default font file
NewFace(sts) == NewFaceFile(DefaultFont, sts)

\* Library.find_face attempting the Fontconfig calls whatever fc is
FcMissingNever == FALSE

\* Library.find_face: if fc == None
FcMissing == fc = "None"

\* the Fontconfig calls of Library.find_face up to the one that fails (fail = 0:
\* none fails), then the FcPatternDestroy calls of _FcPatternManager.__exit__
FcCalls(fail) ==
    LET all == <<<<"FcInit", 0>>, <<"FcNameParse", 0>>, <<"FcConfigSubstitute", 1>>,
                 <<"FcDefaultSubstitute", 1>>, <<"FcFontMatch", 1>>,
                 <<"FcPatternGetString", 2>>>>
        upto == CASE fail = 0 -> 6 [] fail = 1 -> 1 [] fail = 2 -> 2 [] fail = 3 -> 3
                  [] fail = 4 -> 5 [] OTHER -> 6
        search == IF fail \in {1, 2} THEN << >> ELSE <<<<"FcPatternDestroy", 1>>>>
        found == IF fail \in {0, 5} THEN <<<<"FcPatternDestroy", 2>>>> ELSE << >>
    IN  SubSeq(all, 1, upto) \o search \o found

\* Library.find_face(pattern): fail is the Fontconfig call that reports failure,
\* file what the matched font file holds, sts the status of FT_New_Face
FindFace(fail, file, sts) ==
    /\ libAlive
    /\ IF FcMissing
       THEN /\ last' = Rec("Library.find_face", 0, << >>, "NotImplementedError", NoPre)
            /\ UNCHANGED <<kind, wr, font>>
       ELSE IF fail # 0
       THEN /\ last' = Rec("Library.find_face", 0, FcCalls(fail), "RuntimeError", NoPre)
            /\ UNCHANGED <<kind, wr, font>>
       ELSE IF sts # 0 \/ ~libHandle
       THEN /\ last' = Rec("Library.find_face", 0,
                           FcCalls(0) \o <<<<"FT_New_Face", 0>>>>, "FTException",
                           Checked(NoPre, sts))
            /\ UNCHANGED <<kind, wr, font>>
       ELSE /\ FreeRes # {} /\ FreeWr # {}
            /\ kind' = [kind EXCEPT ![NewRes] = "face"]
            /\ wr' = [wr EXCEPT ![NewWr] = MkWr("Face", NewRes, 0, "Library")]
            /\ last' = Rec("Library.find_face", NewWr,
                           FcCalls(0) \o <<<<"FT_New_Face", NewRes>>>>, "none",
                           Checked(NoPre, sts))
            /\ font' = [font EXCEPT ![NewRes] = file]
    /\ UNCHANGED <<rel, fmt, ol, cell, libAlive, libHandle, size, strk, gen, pure>>

\* ------------------------------------------------------------------ Face
\* Face.__del__ without the look at its weak Library reference
FaceDelGuardNoLib(w) == wr[w].ftobj # 0

\* Face.__del__
FaceDelGuard(w) == wr[w].ftobj # 0 /\ Deref(wr[w].lib) # "None"

FaceDel(w, gc, sts) ==
    /\ IsA(w, "Face")
    /\ gc => Unreferenced(w)
    /\ sts = 0 \/ Dangling(wr[w].ftobj)
    /\ IF FaceDelGuard(w)
       THEN IF sts = 0
            THEN /\ rel' = Released(wr[w].ftobj)
                 /\ wr' = [wr EXCEPT ![w] = AfterDel(w, gc, 0)]
                 /\ last' = Rec("Face.__del__", w,
                                <<<<"FT_Done_Face", wr[w].ftobj>>>>, "none", NoPre)
            ELSE /\ wr' = [wr EXCEPT ![w] = AfterDel(w, gc, wr[w].ftobj)]
                 /\ last' = Rec("Face.__del__", w,
                                <<<<"FT_Done_Face", wr[w].ftobj>>>>, "FTException", NoPre)
                 /\ UNCHANGED rel
       ELSE /\ sts = 0
            /\ wr' = [wr EXCEPT ![w] = AfterDel(w, gc, wr[w].ftobj)]
            /\ last' = Rec("Face.__del__", w, << >>, "none", NoPre)
            /\ UNCHANGED rel
    /\ UNCHANGED <<kind, fmt, ol, cell, libAlive, libHandle, more, pure>>

\* Face.load_glyph: render stands for FT.LOAD_RENDER in load_flags, shape for
\* the outline the engine finds in the font
LoadGlyph(w, render, shape, sts) ==
    /\ IsA(w, "Face")
    /\ IF wr[w].ftobj = 0 \/ sts # 0
       THEN /\ last' = Rec("Face.load_glyph", w, <<<<"FT_Load_Glyph", wr[w].ftobj>>>>,
                           "FTException", Checked(NoPre, sts))
            /\ UNCHANGED <<fmt, ol>>
       ELSE /\ fmt' = [fmt EXCEPT ![wr[w].ftobj] = IF render THEN "bitmap" ELSE "outline"]
            /\ ol' = [ol EXCEPT ![wr[w].ftobj] = IF render THEN EmptyOl ELSE shape]
            /\ last' = Rec("Face.load_glyph", w, <<<<"FT_Load_Glyph", wr[w].ftobj>>>>,
                           "none", Checked(NoPre, sts))
    /\ UNCHANGED <<kind, rel, cell, wr, libAlive, libHandle, more, pure>>

\* ------------------------------------------------- Face: size, charmap, kerning
\* an argument left at its default None; a supplied argument v is <<v>>
None == << >>

\* a real number is written as its count of 128ths: 1536 is 12.0, 1600 is 12.5
\* to_f26_6, made by make_fixed_conv(6), keeping the integer part only
To_f26_6_Floor(x) == x \div 2

\* to_f26_6 = lambda x : round(x * 64); round takes a tie to the even integer
To_f26_6(x) ==
    LET q == x \div 2
    IN  IF x % 2 = 0 THEN q ELSE IF q % 2 = 0 THEN q ELSE q + 1

\* Face.set_char_size asserting only that a width or a height is given
SizeArgsOkNoRes(width, height, horz, vert) == width # None \/ height # None

\* Face.set_char_size: its assertion
SizeArgsOk(width, height, horz, vert) ==
    (width # None \/ height # None) /\ (horz # None \/ vert # None)

\* Face.set_char_size: the arguments of FT_Set_Char_Size after the defaulting
SizeArgs(width, height, horz, vert) ==
    LET w == IF width = None THEN height ELSE width
        h == IF width = None THEN height ELSE IF height = None THEN width ELSE height
        hr == IF horz = None THEN vert ELSE horz
        vr == IF horz = None THEN vert ELSE IF vert = None THEN horz ELSE vert
        fx(v) == IF v = None THEN None ELSE <<To_f26_6(v[1])>>
    IN  <<fx(w), fx(h), hr, vr>>

\* Face.set_char_size
SetCharSize(w, width, height, horz, vert, sts) ==
    /\ IsA(w, "Face")
    /\ LET inp == <<width, height, horz, vert>>
           f == wr[w].ftobj
           was == IF f = 0 THEN NoSize ELSE size[f]
           pre == [NoPre EXCEPT !.inp = inp, !.was = was, !.old = f]
       IN  IF ~SizeArgsOk(width, height, horz, vert)
           THEN /\ last' = Rec("Face.set_char_size", w, << >>, "AssertionError", pre)
                /\ UNCHANGED size
           ELSE LET args == SizeArgs(width, height, horz, vert)
                    sent == [pre EXCEPT !.args = args]
                IN  IF f = 0 \/ sts # 0
                    THEN /\ last' = Rec("Face.set_char_size", w,
                                        <<<<"FT_Set_Char_Size", f>>>>, "FTException", sent)
                         /\ UNCHANGED size
                    ELSE /\ last' = Rec("Face.set_char_size", w,
                                        <<<<"FT_Set_Char_Size", f>>>>, "none", sent)
                         /\ size' = [size EXCEPT ![f] = args]
    /\ UNCHANGED <<kind, rel, fmt, ol, cell, wr, libAlive, libHandle, font, strk, gen, pure>>

\* kerning modes
KERNING_DEFAULT == 0
KERNING_UNFITTED == 1
KERNING_UNSCALED == 2

\* Vector.from_ft_int: each coordinate as float(i)
From_ft_int(v) == [x |-> [num |-> v[1], den |-> 1], y |-> [num |-> v[2], den |-> 1]]

\* Vector.from_ft_f26_6: each coordinate as i / 64
From_ft_f26_6(v) == [x |-> [num |-> v[1], den |-> 64], y |-> [num |-> v[2], den |-> 64]]

\* Face.get_kerning; v is the FT.Vector the engine stores into result
GetKerning(w, kern_mode, v, sts) ==
    /\ IsA(w, "Face")
    /\ LET f == wr[w].ftobj
           pre == [NoPre EXCEPT !.inp = <<kern_mode>>, !.args = v, !.old = f]
       IN  IF f = 0 \/ sts # 0
           THEN last' = Rec("Face.get_kerning", w, <<<<"FT_Get_Kerning", f>>>>,
                            "FTException", pre)
           ELSE last' = Rec("Face.get_kerning", w, <<<<"FT_Get_Kerning", f>>>>, "none",
                            [pre EXCEPT !.ret =
                                IF font[f].scalable /\ kern_mode # KERNING_UNSCALED
                                THEN From_ft_f26_6(v) ELSE From_ft_int(v)])
    /\ UNCHANGED <<kind, rel, fmt, ol, cell, wr, libAlive, libHandle, more, pure>>

\* FT_Get_First_Char: the first pair of the charmap, or (0, 0) if it is empty
FT_Get_First_Char(cm) == IF cm = << >> THEN <<0, 0>> ELSE cm[1]

\* FT_Get_Next_Char: the pair after the one of the given char code, or (0, 0)
FT_Get_Next_Char(cm, code) ==
    LET later == {i \in 1..Len(cm) : cm[i][1] > code}
    IN  IF later = {} THEN <<0, 0>> ELSE cm[Min(later)]

\* the charmap the engine reads for a face; none for a null face pointer
CharmapOf(f) == IF f = 0 THEN << >> ELSE font[f].charmap

\* Face.char_glyphs going on whatever glyph index the engine reports
GoesOnAlways(index) == TRUE

\* Face.char_glyphs: while glyph_index.value != 0
GoesOn(index) == index # 0

\* Face.char_glyphs(): a call makes a generator object; nothing runs yet
CharGlyphs(w) ==
    /\ IsA(w, "Face")
    /\ \E g \in Gen :
          /\ gen[g].st = "none"
          /\ \A h \in Gen : h < g => gen[h].st # "none"
          /\ gen' = [gen EXCEPT ![g] = [NoGen EXCEPT !.st = "new", !.face = w]]
          /\ last' = Rec("Face.char_glyphs", w, << >>, "none", [NoPre EXCEPT !.n = g])
    /\ UNCHANGED <<kind, rel, fmt, ol, cell, wr, libAlive, libHandle, font, size, strk, pure>>

\* next() on a generator of Face.char_glyphs: runs the body up to its next yield,
\* or to its end
GenNext(g) ==
    /\ gen[g].st \in {"new", "suspended", "done"}
    /\ LET f == wr[gen[g].face].ftobj
           pre == [NoPre EXCEPT !.n = g]
       IN  IF gen[g].st = "done"
           THEN /\ last' = Rec("next", gen[g].face, << >>, "StopIteration", pre)
                /\ UNCHANGED gen
           ELSE LET first == gen[g].st = "new"
                    got == IF first THEN FT_Get_First_Char(CharmapOf(f))
                           ELSE FT_Get_Next_Char(CharmapOf(f), gen[g].code)
                    call == IF first THEN "FT_Get_First_Char" ELSE "FT_Get_Next_Char"
                IN  IF GoesOn(got[2])
                    THEN /\ gen' = [gen EXCEPT ![g].st = "suspended", ![g].code = got[1],
                                               ![g].index = got[2],
                                               ![g].out = Append(@, got)]
                         /\ last' = Rec("next", gen[g].face, <<<<call, f>>>>, "none",
                                        [pre EXCEPT !.ret = got])
                    ELSE /\ gen' = [gen EXCEPT ![g].st = "done", ![g].code = got[1],
                                               ![g].index = got[2]]
                         /\ last' = Rec("next", gen[g].face, <<<<call, f>>>>,
                                        "StopIteration", pre)
    /\ UNCHANGED <<kind, rel, fmt, ol, cell, wr, libAlive, libHandle, font, size, strk, pure>>

\* --------------------------------------------------------------- Outline
\* Outline.__init__ without its assertion
OutlineInitUnchecked(owner, lib) == TRUE

\* Outline.__init__: the assertion on its owner / lib arguments
OutlineInitOk(owner, lib) == (owner # 0) # (lib # "None")

\* Outline.__init__: the attributes it sets
OutlineInit(ftobj, owner, lib) ==
    IF owner # 0 THEN MkWr("Outline", ftobj, owner, "None")
    ELSE MkWr("Outline", ftobj, 0, lib)

\* Outline(ftobj, owner, lib) called directly with both or with neither of owner
\* and lib, which no method of the module does; weakref.ref refuses None
OutlineConstruct(owner, lib) ==
    /\ owner \in Wr => Live(owner)
    /\ lib # "None" => libAlive
    /\ (owner # 0) = (lib # "None")
    /\ IF ~OutlineInitOk(owner, lib)
       THEN /\ last' = Rec("Outline.__init__", 0, << >>, "AssertionError",
                           [NoPre EXCEPT !.arg = owner,
                                         !.n = IF lib = "None" THEN 0 ELSE 1])
            /\ UNCHANGED wr
       ELSE IF owner = 0 /\ lib = "None"
       THEN /\ last' = Rec("Outline.__init__", 0, << >>, "TypeError",
                           [NoPre EXCEPT !.arg = owner,
                                         !.n = IF lib = "None" THEN 0 ELSE 1])
            /\ UNCHANGED wr
       ELSE /\ FreeWr # {}
            /\ wr' = [wr EXCEPT ![NewWr] = OutlineInit(0, owner, lib)]
            /\ last' = Rec("Outline.__init__", NewWr, << >>, "none",
                           [NoPre EXCEPT !.arg = owner,
                                         !.n = IF lib = "None" THEN 0 ELSE 1])
    /\ UNCHANGED <<kind, rel, fmt, ol, cell, libAlive, libHandle, more, pure>>

\* Face.glyph.outline: a GlyphSlot made by Face.glyph, and GlyphSlot.outline on it
SlotOutline(w) ==
    /\ IsA(w, "Face")
    /\ IF wr[w].ftobj = 0
       THEN /\ last' = Rec("GlyphSlot.outline", w, << >>, "AttributeError", NoPre)
            /\ UNCHANGED wr
       ELSE IF fmt[wr[w].ftobj] # "outline"
       THEN /\ last' = Rec("GlyphSlot.outline", w, << >>, "AssertionError", NoPre)
            /\ UNCHANGED wr
       ELSE /\ FreeWr # {}
            /\ OutlineInitOk(SlotOwner, "None")
            /\ wr' = [wr EXCEPT ![NewWr] = OutlineInit(wr[w].ftobj, SlotOwner, "None")]
            /\ last' = Rec("GlyphSlot.outline", NewWr, << >>, "none", NoPre)
    /\ UNCHANGED <<kind, rel, fmt, ol, cell, libAlive, libHandle, more, pure>>

\* Outline.new
OutlineNew(sts) ==
    /\ libAlive
    /\ IF sts # 0 \/ ~libHandle
       THEN /\ last' = Rec("Outline.new", 0, <<<<"FT_Outline_New", 0>>>>,
                           "FTException", Checked(NoPre, sts))
            /\ UNCHANGED <<kind, wr>>
       ELSE /\ FreeRes # {} /\ FreeWr # {}
            /\ OutlineInitOk(0, "Library")
            /\ kind' = [kind EXCEPT ![NewRes] = "outline"]
            /\ wr' = [wr EXCEPT ![NewWr] = OutlineInit(NewRes, 0, "Library")]
            /\ last' = Rec("Outline.new", NewWr, <<<<"FT_Outline_New", NewRes>>>>,
                           "none", Checked(NoPre, sts))
    /\ UNCHANGED <<rel, fmt, ol, cell, libAlive, libHandle, more, pure>>

\* Outline.__del__ releasing whatever it points to, view or not
OutlineDelGuardAnyOwner(w) == wr[w].ftobj # 0

\* Outline.__del__: the two nested conditions under which it releases
OutlineDelGuard(w) ==
    wr[w].owner = 0 /\ wr[w].lib # "None" /\ Deref(wr[w].lib) # "None" /\ wr[w].ftobj # 0

\* Outline.__del__; FT_Outline_Done refuses a null library handle
OutlineDel(w, gc) ==
    /\ IsA(w, "Outline")
    /\ gc => Unreferenced(w)
    /\ IF OutlineDelGuard(w)
       THEN IF libHandle
            THEN /\ rel' = Released(wr[w].ftobj)
                 /\ ol' = [ol EXCEPT ![wr[w].ftobj] = EmptyOl]
                 /\ wr' = [wr EXCEPT ![w] = AfterDel(w, gc, 0)]
                 /\ last' = Rec("Outline.__del__", w,
                                <<<<"FT_Outline_Done", wr[w].ftobj>>>>, "none",
                                [NoPre EXCEPT !.arg = wr[w].owner])
            ELSE /\ wr' = [wr EXCEPT ![w] = AfterDel(w, gc, wr[w].ftobj)]
                 /\ last' = Rec("Outline.__del__", w,
                                <<<<"FT_Outline_Done", wr[w].ftobj>>>>, "FTException",
                                [NoPre EXCEPT !.arg = wr[w].owner])
                 /\ UNCHANGED <<rel, ol>>
       ELSE /\ wr' = [wr EXCEPT ![w] = AfterDel(w, gc, wr[w].ftobj)]
            /\ last' = Rec("Outline.__del__", w, << >>, "none",
                           [NoPre EXCEPT !.arg = wr[w].owner])
            /\ UNCHANGED <<rel, ol>>
    /\ UNCHANGED <<kind, fmt, cell, libAlive, libHandle, more, pure>>

\* what FT_Outline_New(n_points, n_contours) hands back: zeroed arrays
FT_Outline_New(np, nc) ==
    [n_points |-> np, n_contours |-> nc, points |-> [i \in 1..np |-> 0],
     tags |-> [i \in 1..np |-> 0], contours |-> [i \in 1..nc |-> 0]]

\* libc.memcpy of n elements of src to dst at element offset off
Memcpy(dst, off, src, n) ==
    [i \in 1..Len(dst) |-> IF i > off /\ i <= off + n THEN src[i - off] ELSE dst[i]]

\* Outline._append with the copies of that landing at the start of the arrays
AppendFillAtStart(this, that) ==
    LET result == FT_Outline_New(this.n_points + that.n_points,
                                 this.n_contours + that.n_contours)
        p1 == Memcpy(result.points, 0, this.points, this.n_points)
        p2 == Memcpy(p1, 0, that.points, that.n_points)
        t1 == Memcpy(result.tags, 0, this.tags, this.n_points)
        t2 == Memcpy(t1, 0, that.tags, that.n_points)
        c1 == Memcpy(result.contours, 0, this.contours, this.n_contours)
        c2 == Memcpy(c1, 0, that.contours, that.n_contours)
    IN  [result EXCEPT !.points = p2, !.tags = t2, !.contours = c2]

\* Outline._append: the new outline after the six copies
AppendFill(this, that) ==
    LET result == FT_Outline_New(this.n_points + that.n_points,
                                 this.n_contours + that.n_contours)
        p1 == Memcpy(result.points, 0, this.points, this.n_points)
        p2 == Memcpy(p1, this.n_points, that.points, that.n_points)
        t1 == Memcpy(result.tags, 0, this.tags, this.n_points)
        t2 == Memcpy(t1, this.n_points, that.tags, that.n_points)
        c1 == Memcpy(result.contours, 0, this.contours, this.n_contours)
        c2 == Memcpy(c1, this.n_contours, that.contours, that.n_contours)
    IN  [result EXCEPT !.points = p2, !.tags = t2, !.contours = c2]

\* Outline._append: the engine and libc calls of a completed call, in code order
AppendCalls(new, old) ==
    <<<<"FT_Outline_New", new>>, <<"memcpy", new>>, <<"memcpy", new>>, <<"memcpy", new>>,
      <<"memcpy", new>>, <<"memcpy", new>>, <<"memcpy", new>>, <<"FT_Outline_Done", old>>>>

\* Outline._append releasing the storage of that instead of its own
AppendReleasesThat(a, b) == wr[b].ftobj

\* Outline._append: the storage it releases at the end, self.ftobj
AppendReleases(a, b) == wr[a].ftobj

\* what reading an FT.Outline through a pointer yields: its contents, or
\* anything when the storage behind the pointer has been released
ReadOl(r) == IF rel[r] > 0 THEN Shapes \cup {EmptyOl, ol[r]} ELSE {ol[r]}

\* Outline._append going to the Library whatever self._lib holds
AppendLibAny(a) == "Library"

\* Outline._append: self._lib
AppendLib(a) == wr[a].lib

\* Outline.append(other), with Outline._append
OutlineAppend(a, b, sts) ==
    /\ IsA(a, "Outline") /\ IsA(b, "Outline")
    /\ IF wr[a].ftobj = 0 \/ wr[b].ftobj = 0
       THEN /\ last' = Rec("Outline.append", a, << >>, "AttributeError",
                           [NoPre EXCEPT !.old = wr[a].ftobj])
            /\ UNCHANGED <<kind, rel, ol, wr>>
       ELSE IF AppendLib(a) = "None"
       THEN /\ last' = Rec("Outline.append", a, << >>, "TypeError",
                           [NoPre EXCEPT !.old = wr[a].ftobj])
            /\ UNCHANGED <<kind, rel, ol, wr>>
       ELSE IF Deref(AppendLib(a)) = "None"
       THEN /\ last' = Rec("Outline.append", a, << >>, "AttributeError", NoPre)
            /\ UNCHANGED <<kind, rel, ol, wr>>
       ELSE \E this \in ReadOl(wr[a].ftobj), that \in ReadOl(wr[b].ftobj) :
            IF sts # 0 \/ ~libHandle \/ this.n_points + that.n_points > MaxPoints
            THEN /\ last' = Rec("Outline.append", a, <<<<"FT_Outline_New", 0>>>>,
                                "FTException", NoPre)
                 /\ UNCHANGED <<kind, rel, ol, wr>>
            ELSE /\ FreeRes # {}
                 /\ kind' = [kind EXCEPT ![NewRes] = "outline"]
                 /\ rel' = Released(AppendReleases(a, b))
                 /\ ol' = [ol EXCEPT ![NewRes] = AppendFill(this, that),
                                     ![AppendReleases(a, b)] = EmptyOl]
                 /\ wr' = [wr EXCEPT ![a].ftobj = NewRes]
                 /\ last' = Rec("Outline.append", a,
                                AppendCalls(NewRes, AppendReleases(a, b)), "none",
                                [a |-> this, b |-> that, old |-> wr[a].ftobj,
                                 arg |-> wr[b].ftobj, cellv |-> b,
                                 n |-> rel[wr[b].ftobj]])
    /\ UNCHANGED <<fmt, cell, libAlive, libHandle, more, pure>>

\* ----------------------------------------------------- Outline: contours
\* the triple Outline.contours makes of point pointindex (counted from 0): the
\* coordinates, flag & 3, and flag >> 32, which is 0 for the one-byte tags
CurvePoint(o, pointindex) ==
    <<o.points[pointindex + 1], o.tags[pointindex + 1] % 4, 0>>

\* Outline.contours: the while loop for one contour, entered with pointindex as the
\* contour before left it; yields the contour and pointindex as the loop leaves it
RECURSIVE WalkContour(_, _, _, _)
WalkContour(o, endpoint, pointindex, contour) ==
    IF pointindex = o.n_points
    THEN [err |-> "IndexError", pointindex |-> pointindex, contour |-> contour]
    ELSE LET longer == Append(contour, CurvePoint(o, pointindex))
         IN  IF pointindex = endpoint
             THEN [err |-> "none", pointindex |-> pointindex, contour |-> longer]
             ELSE WalkContour(o, endpoint, pointindex + 1, longer)

\* Outline.contours: the for loop, from contour contourindex (counted from 0) on
RECURSIVE WalkContours(_, _, _, _)
WalkContours(o, contourindex, pointindex, result) ==
    IF contourindex >= o.n_contours THEN [err |-> "none", result |-> result]
    ELSE LET walked == WalkContour(o, o.contours[contourindex + 1], pointindex, << >>)
         IN  IF walked.err # "none" THEN [err |-> walked.err, result |-> << >>]
             ELSE WalkContours(o, contourindex + 1, walked.pointindex,
                               Append(result, walked.contour))

\* Outline.contours, read on an Outline whose storage is still allocated
OutlineContours(w) ==
    /\ IsA(w, "Outline")
    /\ wr[w].ftobj # 0 => rel[wr[w].ftobj] = 0
    /\ IF wr[w].ftobj = 0
       THEN last' = Rec("Outline.contours", w, << >>, "AttributeError", NoPre)
       ELSE LET o == ol[wr[w].ftobj]
                walked == WalkContours(o, 0, 0, << >>)
            IN  last' = Rec("Outline.contours", w, << >>, walked.err,
                            [NoPre EXCEPT !.a = o, !.ret = walked.result])
    /\ UNCHANGED <<kind, rel, fmt, ol, cell, wr, libAlive, libHandle, more, pure>>

\* --------------------------------------------------------- Outline: draw
\* Vector.__add__, __sub__, and __mul__ / __rmul__, __truediv__ by a Number
VectorAdd(v1, v2) == [x |-> FloatAdd(v1.x, v2.x), y |-> FloatAdd(v1.y, v2.y)]
VectorSub(v1, v2) == [x |-> FloatSub(v1.x, v2.x), y |-> FloatSub(v1.y, v2.y)]
VectorMul(v, f) == [x |-> FloatMul(v.x, Float(f, 1)), y |-> FloatMul(v.y, Float(f, 1))]
VectorDiv(v, f) == [x |-> FloatDiv(v.x, Float(f, 1)), y |-> FloatDiv(v.y, Float(f, 1))]

\* conic_to taking the point halfway to the control point
ConicControlHalfway(pos, midpos) == VectorAdd(pos, VectorDiv(VectorSub(midpos, pos), 2))

\* conic_to: pos + 2 * (midpos - pos) / 3, the cubic control point next to pos
ConicControl(pos, midpos) ==
    VectorAdd(pos, VectorDiv(VectorMul(VectorSub(midpos, pos), 2), 3))

\* line_to leaving pos0 as it was
Line_toKeepsPos0(pos0, pos) == pos0

\* line_to: pos0 = pos
Line_toPos0(pos0, pos) == <<pos>>

\* a call on the cairo.Context g
SinkCall(op, at) == [op |-> op, at |-> at]

\* one callback of Outline.draw run on st: pos0 (<< >> for None) and the calls made
\* on g so far. A callback that raises is abandoned where it raised, and the
\* decomposition goes on.
Callback(st, cb) ==
    LET pt(i) == From_ft_int(cb.pts[i])
    IN  CASE cb.kind = "move_to" ->
               [pos0 |-> <<pt(1)>>, out |-> Append(st.out, SinkCall("move_to", <<pt(1)>>))]
          [] cb.kind = "line_to" ->
               [pos0 |-> Line_toPos0(st.pos0, pt(1)),
                out |-> Append(st.out, SinkCall("line_to", <<pt(1)>>))]
          [] cb.kind = "conic_to" ->
               IF st.pos0 = << >> THEN st
               ELSE [pos0 |-> <<pt(2)>>,
                     out |-> Append(st.out, SinkCall("curve_to",
                                 <<ConicControl(st.pos0[1], pt(1)),
                                   ConicControl(pt(2), pt(1)), pt(2)>>))]
          [] OTHER ->
               [pos0 |-> <<pt(3)>>,
                out |-> Append(st.out, SinkCall("curve_to", <<pt(1), pt(2), pt(3)>>))]

\* the callbacks cbs[i..] run in order
RECURSIVE Decompose(_, _, _)
Decompose(st, cbs, i) ==
    IF i > Len(cbs) THEN st ELSE Decompose(Callback(st, cbs[i]), cbs, i + 1)

\* Outline.draw(g): cbs are the callbacks FT_Outline_Decompose makes for the
\* outline, sts the status it returns afterwards
OutlineDraw(w, cbs, sts) ==
    /\ IsA(w, "Outline")
    /\ LET f == wr[w].ftobj
           made == IF f = 0 THEN << >> ELSE cbs
           drawn == Decompose([pos0 |-> << >>, out |-> << >>], made, 1)
           pre == [NoPre EXCEPT !.inp = made, !.ret = drawn.out]
       IN  last' = Rec("Outline.draw", w, <<<<"FT_Outline_Decompose", f>>>>,
                       IF f = 0 \/ sts # 0 THEN "FTException" ELSE "none",
                       Checked(pre, sts))
    /\ UNCHANGED <<kind, rel, fmt, ol, cell, wr, libAlive, libHandle, more, pure>>

\* ----------------------------------------------------------------- Glyph
\* Glyph.__init__
GlyphInit(ftobj) == MkWr("Glyph", ftobj, 0, "None")

\* Face.glyph.get_glyph(): FT_Get_Glyph copies the slot's image into a new
\* engine glyph, whose handle goes into a new FT.Glyph cell
GetGlyph(w, sts) ==
    /\ IsA(w, "Face")
    /\ IF wr[w].ftobj = 0
       THEN /\ last' = Rec("GlyphSlot.get_glyph", w, << >>, "AttributeError", NoPre)
            /\ UNCHANGED <<kind, fmt, ol, cell, wr>>
       ELSE IF sts # 0 \/ fmt[wr[w].ftobj] = "none"
       THEN /\ last' = Rec("GlyphSlot.get_glyph", w, <<<<"FT_Get_Glyph", 0>>>>,
                           "FTException", NoPre)
            /\ UNCHANGED <<kind, fmt, ol, cell, wr>>
       ELSE /\ FreeRes # {} /\ FreeWr # {}
            /\ kind' = [kind EXCEPT ![NewRes] = "glyph"]
            /\ fmt' = [fmt EXCEPT ![NewRes] = fmt[wr[w].ftobj]]
            /\ ol' = [ol EXCEPT ![NewRes] = ol[wr[w].ftobj]]
            /\ cell' = [cell EXCEPT ![NewRes] = NewRes]
            /\ wr' = [wr EXCEPT ![NewWr] = GlyphInit(NewRes)]
            /\ last' = Rec("GlyphSlot.get_glyph", NewWr, <<<<"FT_Get_Glyph", NewRes>>>>,
                           "none", NoPre)
    /\ UNCHANGED <<rel, libAlive, libHandle, more, pure>>

\* Glyph.__del__: the condition under which it calls FT_Done_Glyph
GlyphDelGuard(w) == wr[w].ftobj # 0

\* Glyph.__del__
GlyphDel(w, gc) ==
    /\ IsA(w, "Glyph")
    /\ gc => Unreferenced(w)
    /\ IF GlyphDelGuard(w)
       THEN /\ rel' = Released(cell[wr[w].ftobj])
            /\ wr' = [wr EXCEPT ![w] = AfterDel(w, gc, 0)]
            /\ last' = Rec("Glyph.__del__", w,
                           <<<<"FT_Done_Glyph", cell[wr[w].ftobj]>>>>, "none", NoPre)
       ELSE /\ wr' = [wr EXCEPT ![w] = AfterDel(w, gc, 0)]
            /\ last' = Rec("Glyph.__del__", w, << >>, "none", NoPre)
            /\ UNCHANGED rel
    /\ UNCHANGED <<kind, fmt, ol, cell, libAlive, libHandle, more, pure>>

\* Glyph.copy
GlyphCopy(w, sts) ==
    /\ IsA(w, "Glyph")
    /\ IF wr[w].ftobj = 0 \/ sts # 0
       THEN /\ last' = Rec("Glyph.copy", w, <<<<"FT_Glyph_Copy", 0>>>>,
                           "FTException", NoPre)
            /\ UNCHANGED <<kind, fmt, ol, cell, wr>>
       ELSE /\ FreeRes # {} /\ FreeWr # {}
            /\ kind' = [kind EXCEPT ![NewRes] = "glyph"]
            /\ fmt' = [fmt EXCEPT ![NewRes] = fmt[cell[wr[w].ftobj]]]
            /\ ol' = [ol EXCEPT ![NewRes] = ol[cell[wr[w].ftobj]]]
            /\ cell' = [cell EXCEPT ![NewRes] = NewRes]
            /\ wr' = [wr EXCEPT ![NewWr] = GlyphInit(NewRes)]
            /\ last' = Rec("Glyph.copy", NewWr, <<<<"FT_Glyph_Copy", NewRes>>>>,
                           "none", NoPre)
    /\ UNCHANGED <<rel, libAlive, libHandle, more, pure>>

\* The wrapper side of Glyph.to_bitmap, Stroker.stroke and Stroker.stroke_border
\* after the engine call on the cell c = glyph.ftobj succeeded: in replace mode
\* the glyph wrapper is given result.contents, which is the cell it has; otherwise
\* a new Glyph is made of result.contents
ResultGlyph(g, replace) ==
    IF replace THEN [wr EXCEPT ![g].ftobj = wr[g].ftobj]
    ELSE [wr EXCEPT ![NewWr] = GlyphInit(wr[g].ftobj)]

\* The engine side of FT_Glyph_To_Bitmap / FT_Glyph_Stroke / FT_Glyph_StrokeBorder
\* on the cell c: a new engine glyph of format f is stored into the cell, and
\* the glyph the cell held is destroyed when destroy is set
EngineReplace(op, who, g, f, o, destroy, call) ==
    LET c == wr[g].ftobj
        old == cell[c]
    IN  /\ FreeRes # {}
        /\ destroy \/ FreeWr # {}
        /\ kind' = [kind EXCEPT ![NewRes] = "glyph"]
        /\ fmt' = [fmt EXCEPT ![NewRes] = f]
        /\ ol' = [ol EXCEPT ![NewRes] = o]
        /\ rel' = IF destroy THEN Released(old) ELSE rel
        /\ cell' = [cell EXCEPT ![c] = NewRes]
        /\ wr' = ResultGlyph(g, destroy)
        /\ last' = Rec(op, who, <<<<call, NewRes>>>>, "none",
                       [NoPre EXCEPT !.old = old, !.cellv = NewRes,
                                     !.arg = IF destroy THEN 0 ELSE NewWr])

\* Glyph.to_bitmap(render_mode, origin, replace); FT_Glyph_To_Bitmap leaves a
\* glyph that is a bitmap already as it is
ToBitmap(w, replace, sts) ==
    /\ IsA(w, "Glyph")
    /\ IF wr[w].ftobj = 0
       THEN /\ last' = Rec("Glyph.to_bitmap", w, << >>, "TypeError", NoPre)
            /\ UNCHANGED <<kind, rel, fmt, ol, cell, wr>>
       ELSE IF sts # 0
       THEN /\ last' = Rec("Glyph.to_bitmap", w, <<<<"FT_Glyph_To_Bitmap", 0>>>>,
                           "FTException", NoPre)
            /\ UNCHANGED <<kind, rel, fmt, ol, cell, wr>>
       ELSE IF fmt[cell[wr[w].ftobj]] = "bitmap"
       THEN /\ replace \/ FreeWr # {}
            /\ wr' = ResultGlyph(w, replace)
            /\ last' = Rec("Glyph.to_bitmap", w, <<<<"FT_Glyph_To_Bitmap", 0>>>>, "none",
                           [NoPre EXCEPT !.old = cell[wr[w].ftobj],
                                         !.cellv = cell[wr[w].ftobj],
                                         !.arg = IF replace THEN 0 ELSE NewWr])
            /\ UNCHANGED <<kind, rel, fmt, ol, cell>>
       ELSE EngineReplace("Glyph.to_bitmap", w, w, "bitmap", EmptyOl, replace,
                          "FT_Glyph_To_Bitmap")
    /\ UNCHANGED <<libAlive, libHandle, more, pure>>

\* Glyph.outline: an Outline view of the outline inside the engine glyph
GlyphOutline(w) ==
    /\ IsA(w, "Glyph")
    /\ IF wr[w].ftobj = 0
       THEN /\ last' = Rec("Glyph.outline", w, << >>, "AttributeError", NoPre)
            /\ UNCHANGED wr
       ELSE IF fmt[cell[wr[w].ftobj]] # "outline"
       THEN /\ last' = Rec("Glyph.outline", w, << >>, "AssertionError", NoPre)
            /\ UNCHANGED wr
       ELSE /\ FreeWr # {}
            /\ OutlineInitOk(w, "None")
            /\ wr' = [wr EXCEPT ![NewWr] = OutlineInit(cell[wr[w].ftobj], w, "None")]
            /\ last' = Rec("Glyph.outline", NewWr, << >>, "none", NoPre)
    /\ UNCHANGED <<kind, rel, fmt, ol, cell, libAlive, libHandle, more, pure>>

\* ---------------------------------------------------------------- Bitmap
\* Bitmap.__init__
BitmapInit(ftobj, owner, lib) ==
    IF owner # 0 THEN MkWr("Bitmap", ftobj, owner, "None")
    ELSE MkWr("Bitmap", ftobj, 0, lib)

\* Face.glyph.bitmap: a GlyphSlot made by Face.glyph, and GlyphSlot.bitmap on it
SlotBitmap(w) ==
    /\ IsA(w, "Face")
    /\ IF wr[w].ftobj = 0
       THEN /\ last' = Rec("GlyphSlot.bitmap", w, << >>, "AttributeError", NoPre)
            /\ UNCHANGED wr
       ELSE IF fmt[wr[w].ftobj] # "bitmap"
       THEN /\ last' = Rec("GlyphSlot.bitmap", w, << >>, "AssertionError", NoPre)
            /\ UNCHANGED wr
       ELSE /\ FreeWr # {}
            /\ wr' = [wr EXCEPT ![NewWr] = BitmapInit(wr[w].ftobj, SlotOwner, "None")]
            /\ last' = Rec("GlyphSlot.bitmap", NewWr, << >>, "none", NoPre)
    /\ UNCHANGED <<kind, rel, fmt, ol, cell, libAlive, libHandle, more, pure>>

\* Glyph.bitmap: a Bitmap view of the bitmap inside the engine glyph
GlyphBitmap(w) ==
    /\ IsA(w, "Glyph")
    /\ IF wr[w].ftobj = 0
       THEN /\ last' = Rec("Glyph.bitmap", w, << >>, "AttributeError", NoPre)
            /\ UNCHANGED wr
       ELSE IF fmt[cell[wr[w].ftobj]] # "bitmap"
       THEN /\ last' = Rec("Glyph.bitmap", w, << >>, "AssertionError", NoPre)
            /\ UNCHANGED wr
       ELSE /\ FreeWr # {}
            /\ wr' = [wr EXCEPT ![NewWr] = BitmapInit(cell[wr[w].ftobj], w, "None")]
            /\ last' = Rec("Glyph.bitmap", NewWr, << >>, "none", NoPre)
    /\ UNCHANGED <<kind, rel, fmt, ol, cell, libAlive, libHandle, more, pure>>

\* Bitmap.copy(lib): the new Bitmap is constructed with lib.lib, the handle
\* object, as its lib argument
BitmapCopy(w, sts) ==
    /\ IsA(w, "Bitmap")
    /\ libAlive
    /\ IF sts # 0 \/ ~libHandle
       THEN /\ last' = Rec("Bitmap.copy", w, <<<<"FT_Bitmap_Copy", 0>>>>,
                           "FTException", NoPre)
            /\ UNCHANGED <<kind, wr>>
       ELSE /\ FreeRes # {} /\ FreeWr # {}
            /\ kind' = [kind EXCEPT ![NewRes] = "bitmap"]
            /\ wr' = [wr EXCEPT ![NewWr] = BitmapInit(NewRes, 0, "handle")]
            /\ last' = Rec("Bitmap.copy", NewWr, <<<<"FT_Bitmap_Copy", NewRes>>>>,
                           "none", NoPre)
    /\ UNCHANGED <<rel, fmt, ol, cell, libAlive, libHandle, more, pure>>

\* the storage regime of a Bitmap: a Python array, the engine's, or its owner's
StorageOf(w) ==
    IF wr[w].buffer THEN "array" ELSE IF wr[w].owner # 0 THEN "view" ELSE "engine"

\* what "last" keeps of a Bitmap when its destructor runs
BitmapPre(w) == [NoPre EXCEPT !.old = wr[w].ftobj, !.mode = StorageOf(w)]

\* Bitmap.convert(lib, alignment): like copy, the new Bitmap is constructed with
\* lib.lib as its lib argument
BitmapConvert(w, sts) ==
    /\ IsA(w, "Bitmap")
    /\ libAlive
    /\ IF sts # 0 \/ ~libHandle
       THEN /\ last' = Rec("Bitmap.convert", w, <<<<"FT_Bitmap_Convert", 0>>>>,
                           "FTException", BitmapPre(w))
            /\ UNCHANGED <<kind, wr>>
       ELSE /\ FreeRes # {} /\ FreeWr # {}
            /\ kind' = [kind EXCEPT ![NewRes] = "bitmap"]
            /\ wr' = [wr EXCEPT ![NewWr] = BitmapInit(NewRes, 0, "handle")]
            /\ last' = Rec("Bitmap.convert", NewWr, <<<<"FT_Bitmap_Convert", NewRes>>>>,
                           "none", BitmapPre(w))
    /\ UNCHANGED <<rel, fmt, ol, cell, libAlive, libHandle, more, pure>>

\* Bitmap(ct.pointer(result), None, None) followed by result.buffer = buffer: the
\* FT.Bitmap structure and the pixel array are Python objects
ArrayBitmap(ftobj) == [BitmapInit(ftobj, 0, "None") EXCEPT !.buffer = TRUE]

\* Bitmap.new_with_array(width, rows, pitch, bg); fits: pitch is left out or is
\* at least width
BitmapNewWithArray(fits) ==
    /\ IF ~fits
       THEN /\ last' = Rec("Bitmap.new_with_array", 0, << >>, "AssertionError", NoPre)
            /\ UNCHANGED <<kind, wr>>
       ELSE /\ FreeRes # {} /\ FreeWr # {}
            /\ kind' = [kind EXCEPT ![NewRes] = "array"]
            /\ wr' = [wr EXCEPT ![NewWr] = ArrayBitmap(NewRes)]
            /\ last' = Rec("Bitmap.new_with_array", NewWr, <<<<"FT_Bitmap_New", NewRes>>>>,
                           "none", NoPre)
    /\ UNCHANGED <<rel, fmt, ol, cell, libAlive, libHandle, more, pure>>

\* Bitmap.copy_with_array()
BitmapCopyWithArray(w) ==
    /\ IsA(w, "Bitmap")
    /\ IF wr[w].ftobj = 0
       THEN /\ last' = Rec("Bitmap.copy_with_array", w, << >>, "AttributeError", NoPre)
            /\ UNCHANGED <<kind, wr>>
       ELSE /\ FreeRes # {} /\ FreeWr # {}
            /\ kind' = [kind EXCEPT ![NewRes] = "array"]
            /\ wr' = [wr EXCEPT ![NewWr] = ArrayBitmap(NewRes)]
            /\ last' = Rec("Bitmap.copy_with_array", NewWr,
                           <<<<"FT_Bitmap_New", NewRes>>, <<"memcpy", NewRes>>>>,
                           "none", NoPre)
    /\ UNCHANGED <<rel, fmt, ol, cell, libAlive, libHandle, more, pure>>

\* Bitmap.embolden(lib, x_strength, y_strength): refused for array storage
BitmapEmbolden(w, sts) ==
    /\ IsA(w, "Bitmap")
    /\ libAlive
    /\ last' = IF wr[w].buffer
               THEN Rec("Bitmap.embolden", w, << >>, "AssertionError", BitmapPre(w))
               ELSE Rec("Bitmap.embolden", w, <<<<"FT_Bitmap_Embolden", wr[w].ftobj>>>>,
                        IF sts # 0 \/ ~libHandle THEN "FTException" ELSE "none", BitmapPre(w))
    /\ UNCHANGED <<kind, rel, fmt, ol, cell, wr, libAlive, libHandle, more, pure>>

\* pixel modes
PIXEL_MODE_MONO == 1
PIXEL_MODE_GRAY == 2
PIXEL_MODE_LCD == 5

\* a / b rounded up
CeilDiv(a, b) == (a + b - 1) \div b

\* cairo.ImageSurface.format_stride_for_width: rows are padded to 4 bytes
Format_stride_for_width(format, width) ==
    IF format = "FORMAT_A1" THEN 4 * CeilDiv(width, 32) ELSE 4 * CeilDiv(width, 4)

\* libc.memcpy(dst + doff, src + soff, n) on byte arrays
MemcpyAt(dst, doff, src, soff, n) ==
    [i \in 1..Len(dst) |-> IF i > doff /\ i <= doff + n THEN src[soff + i - doff]
                           ELSE dst[i]]

\* Bitmap.make_image_surface: the loop copying a row at a time, from row i on
RECURSIVE CopyRows(_, _, _, _, _, _)
CopyRows(pixels, i, rows, dst_pitch, src_pitch, src) ==
    IF i >= rows THEN pixels
    ELSE CopyRows(MemcpyAt(pixels, i * dst_pitch, src, i * src_pitch, src_pitch),
                  i + 1, rows, dst_pitch, src_pitch, src)

\* Bitmap.make_image_surface: assert dst_pitch > src_pitch
PitchFits(dst_pitch, src_pitch) == dst_pitch > src_pitch

\* Bitmap.make_image_surface(copy) as a function of the FT.Bitmap b: the exception
\* raised, or the arguments of cairo.ImageSurface.create_for_data
ImageSurface(b, copy) ==
    LET failed(e) == [err |-> e, pixels |-> << >>, format |-> "none", stride |-> 0,
                      shared |-> FALSE]
        cairo_format == IF b.pixel_mode = PIXEL_MODE_MONO THEN "FORMAT_A1"
                        ELSE "FORMAT_A8"
        src_pitch == b.pitch
        dst_pitch == Format_stride_for_width(cairo_format, b.width)
        buffer_size == b.rows * dst_pitch
        blank == [i \in 1..buffer_size |-> 48]
        made(pixels, shared) ==
            [err |-> "none", pixels |-> pixels, format |-> cairo_format,
             stride |-> dst_pitch, shared |-> shared]
    IN  IF b.pixel_mode \notin {PIXEL_MODE_MONO, PIXEL_MODE_GRAY}
        THEN failed("NotImplementedError")
        ELSE IF src_pitch < 0 THEN failed("NotImplementedError")
        ELSE IF ~copy /\ dst_pitch = src_pitch /\ b.array THEN made(b.bytes, TRUE)
        ELSE IF dst_pitch = src_pitch
        THEN made(MemcpyAt(blank, 0, b.bytes, 0, buffer_size), FALSE)
        ELSE IF ~PitchFits(dst_pitch, src_pitch) THEN failed("AssertionError")
        ELSE made(CopyRows(blank, 0, b.rows, dst_pitch, src_pitch, b.bytes), FALSE)

\* Bitmap.make_image_surface(copy) on the Bitmap picked
MakeImageSurface(copy) ==
    /\ bmp # NoBitmap
    /\ LET result == ImageSurface(bmp, copy)
       IN  last' = Rec("Bitmap.make_image_surface", 0,
                       IF result.err = "none" /\ ~result.shared
                       THEN <<<<"memcpy", 0>>>> ELSE << >>,
                       result.err, [NoPre EXCEPT !.inp = <<copy>>, !.ret = <<result>>])
    /\ UNCHANGED <<kind, rel, fmt, ol, cell, wr, libAlive, libHandle, more, pure>>

\* Bitmap.__del__ releasing whatever it points to, whichever storage it has
BitmapDelGuardAnyStorage(w) == wr[w].ftobj # 0

\* Bitmap.__del__: the two nested conditions under which it goes on to release
BitmapDelGuard(w) ==
    ~wr[w].buffer /\ wr[w].lib # "None" /\ Deref(wr[w].lib) # "None" /\ wr[w].ftobj # 0

\* Bitmap.__del__: self._lib().lib exists only when _lib refers to a Library
BitmapDel(w, gc) ==
    /\ IsA(w, "Bitmap")
    /\ gc => Unreferenced(w)
    /\ IF BitmapDelGuard(w)
       THEN IF Deref(wr[w].lib) = "handle"
            THEN /\ wr' = [wr EXCEPT ![w] = AfterDel(w, gc, wr[w].ftobj)]
                 /\ last' = Rec("Bitmap.__del__", w, << >>, "AttributeError", BitmapPre(w))
                 /\ UNCHANGED rel
            ELSE IF libHandle
            THEN /\ rel' = Released(wr[w].ftobj)
                 /\ wr' = [wr EXCEPT ![w] = AfterDel(w, gc, 0)]
                 /\ last' = Rec("Bitmap.__del__", w,
                                <<<<"FT_Bitmap_Done", wr[w].ftobj>>>>, "none", BitmapPre(w))
            ELSE /\ wr' = [wr EXCEPT ![w] = AfterDel(w, gc, wr[w].ftobj)]
                 /\ last' = Rec("Bitmap.__del__", w,
                                <<<<"FT_Bitmap_Done", wr[w].ftobj>>>>, "FTException", BitmapPre(w))
                 /\ UNCHANGED rel
       ELSE /\ wr' = [wr EXCEPT ![w] = AfterDel(w, gc, wr[w].ftobj)]
            /\ last' = Rec("Bitmap.__del__", w, << >>, "none", BitmapPre(w))
            /\ UNCHANGED rel
    /\ UNCHANGED <<kind, fmt, ol, cell, libAlive, libHandle, more, pure>>

\* --------------------------------------------------------------- Stroker
\* Stroker.__init__
StrokerNew(sts) ==
    /\ libAlive
    /\ IF sts # 0 \/ ~libHandle
       THEN /\ last' = Rec("Stroker.__init__", 0, <<<<"FT_Stroker_New", 0>>>>,
                           "FTException", NoPre)
            /\ UNCHANGED <<kind, wr>>
       ELSE /\ FreeRes # {} /\ FreeWr # {}
            /\ kind' = [kind EXCEPT ![NewRes] = "stroker"]
            /\ wr' = [wr EXCEPT ![NewWr] = MkWr("Stroker", NewRes, 0, "Library")]
            /\ last' = Rec("Stroker.__init__", NewWr, <<<<"FT_Stroker_New", NewRes>>>>,
                           "none", NoPre)
    /\ UNCHANGED <<rel, fmt, ol, cell, libAlive, libHandle, more, pure>>

\* Stroker.__del__: the condition under which it calls FT_Stroker_Done
StrokerDelGuard(w) ==
    wr[w].ftobj # 0 /\ wr[w].lib # "None" /\ Deref(wr[w].lib) # "None"

\* Stroker.__del__
StrokerDel(w, gc) ==
    /\ IsA(w, "Stroker")
    /\ gc => Unreferenced(w)
    /\ IF StrokerDelGuard(w)
       THEN /\ rel' = Released(wr[w].ftobj)
            /\ wr' = [wr EXCEPT ![w] = AfterDel(w, gc, 0)]
            /\ last' = Rec("Stroker.__del__", w,
                           <<<<"FT_Stroker_Done", wr[w].ftobj>>>>, "none", NoPre)
       ELSE /\ wr' = [wr EXCEPT ![w] = AfterDel(w, gc, wr[w].ftobj)]
            /\ last' = Rec("Stroker.__del__", w, << >>, "none", NoPre)
            /\ UNCHANGED rel
    /\ UNCHANGED <<kind, fmt, ol, cell, libAlive, libHandle, more, pure>>

\* Stroker.stroke / Stroker.stroke_border: the stroked copy replaces the glyph
\* in the cell; the engine refuses a glyph that is no outline and a null stroker
GlyphStroke(op, call, s, g, replace, sts) ==
    /\ IsA(s, "Stroker") /\ IsA(g, "Glyph")
    /\ IF wr[g].ftobj = 0
       THEN /\ last' = Rec(op, s, << >>, "TypeError", NoPre)
            /\ UNCHANGED <<kind, rel, fmt, ol, cell, wr>>
       ELSE IF sts # 0 \/ wr[s].ftobj = 0 \/ fmt[cell[wr[g].ftobj]] # "outline"
       THEN /\ last' = Rec(op, s, <<<<call, 0>>>>, "FTException", NoPre)
            /\ UNCHANGED <<kind, rel, fmt, ol, cell, wr>>
       ELSE EngineReplace(op, s, g, "outline", ol[cell[wr[g].ftobj]], replace, call)
    /\ UNCHANGED <<libAlive, libHandle, more, pure>>

Stroke(s, g, replace, sts) ==
    GlyphStroke("Stroker.stroke", "FT_Glyph_Stroke", s, g, replace, sts)

StrokeBorder(s, g, inside, replace, sts) ==
    GlyphStroke("Stroker.stroke_border", "FT_Glyph_StrokeBorder", s, g, replace, sts)

\* ------------------------------------------------ Stroker: parse and export
\* Stroker.set: FT_Stroker_Set returns nothing; a null stroker is left alone
StrokerSet(s) ==
    /\ IsA(s, "Stroker")
    /\ strk' = IF wr[s].ftobj = 0 THEN strk ELSE [strk EXCEPT ![wr[s].ftobj].set = TRUE]
    /\ last' = Rec("Stroker.set", s, <<<<"FT_Stroker_Set", wr[s].ftobj>>>>, "none", NoPre)
    /\ UNCHANGED <<kind, rel, fmt, ol, cell, wr, libAlive, libHandle, font, size, gen, pure>>

\* Stroker.rewind: FT_Stroker_Rewind drops the borders parsed so far
StrokerRewind(s) ==
    /\ IsA(s, "Stroker")
    /\ strk' = IF wr[s].ftobj = 0 THEN strk
               ELSE [strk EXCEPT ![wr[s].ftobj].left = EmptyOl,
                                 ![wr[s].ftobj].right = EmptyOl]
    /\ last' = Rec("Stroker.rewind", s, <<<<"FT_Stroker_Rewind", wr[s].ftobj>>>>,
                   "none", NoPre)
    /\ UNCHANGED <<kind, rel, fmt, ol, cell, wr, libAlive, libHandle, font, size, gen, pure>>

\* the engine appending outline y to outline x (contour ends of y moved up)
EngineConcat(x, y) ==
    [n_points |-> x.n_points + y.n_points,
     n_contours |-> x.n_contours + y.n_contours,
     points |-> x.points \o y.points,
     tags |-> x.tags \o y.tags,
     contours |-> x.contours \o [i \in 1..y.n_contours |-> y.contours[i] + x.n_points]]

\* the border the engine computes on one side of outline o: one closed contour
\* of one point when o has points (p names the point), nothing otherwise
BorderOf(o, p) ==
    IF o.n_points = 0 THEN EmptyOl
    ELSE [n_points |-> 1, n_contours |-> 1, points |-> <<p>>, tags |-> <<CURVEPT_ON>>,
          contours |-> <<0>>]

\* the FT.Outline pointer a wrapper passes as outline.ftobj, for an Outline and
\* for face.glyph.outline made on the spot from a Face
OutlineArg(o) == wr[o].ftobj

\* Stroker.parse_outline(outline, opened); outline is an Outline, or the
\* face.glyph.outline of a Face, made for the call
ParseOutline(s, o, opened, sts) ==
    /\ IsA(s, "Stroker") /\ Live(o)
    /\ LET f == wr[s].ftobj
           call == <<<<"FT_Stroker_ParseOutline", f>>>>
           pre == [NoPre EXCEPT !.old = f, !.inp = IF f = 0 THEN << >> ELSE <<strk[f].set>>]
       IN  IF wr[o].kind = "Face" /\ wr[o].ftobj = 0
           THEN /\ last' = Rec("Stroker.parse_outline", s, << >>, "AttributeError", pre)
                /\ UNCHANGED strk
           ELSE IF wr[o].kind = "Face" /\ fmt[wr[o].ftobj] # "outline"
           THEN /\ last' = Rec("Stroker.parse_outline", s, << >>, "AssertionError", pre)
                /\ UNCHANGED strk
           ELSE IF wr[o].kind \notin {"Face", "Outline"}
           THEN /\ last' = Rec("Stroker.parse_outline", s, << >>, "TypeError", pre)
                /\ UNCHANGED strk
           ELSE IF f = 0 \/ OutlineArg(o) = 0 \/ sts # 0
           THEN /\ last' = Rec("Stroker.parse_outline", s, call, "FTException", pre)
                /\ UNCHANGED strk
           ELSE \E src \in ReadOl(OutlineArg(o)) :
                LET l == EngineConcat(strk[f].left, BorderOf(src, 41))
                    r == EngineConcat(strk[f].right,
                                      IF opened THEN EmptyOl ELSE BorderOf(src, 42))
                IN  IF l.n_points + r.n_points > MaxPoints
                    THEN /\ last' = Rec("Stroker.parse_outline", s, call, "FTException",
                                        pre)
                         /\ UNCHANGED strk
                    ELSE /\ last' = Rec("Stroker.parse_outline", s, call, "none", pre)
                         /\ strk' = [strk EXCEPT ![f].left = l, ![f].right = r]
    /\ UNCHANGED <<kind, rel, fmt, ol, cell, wr, libAlive, libHandle, font, size, gen, pure>>

\* what FT_Stroker_Export / FT_Stroker_ExportBorder writes: both borders, or
\* the border asked for
Exported(st, border) ==
    IF border = "both" THEN EngineConcat(st.left, st.right)
    ELSE IF border = "left" THEN st.left ELSE st.right

\* Stroker.get_counts / get_border_counts: (anum_points, anum_contours)
Counts(st, border) == <<Exported(st, border).n_points, Exported(st, border).n_contours>>

\* a scratch outline with room for MaxPoints points whatever the counts are
ScratchLargest(np, nc) ==
    [FT_Outline_New(MaxPoints, MaxPoints) EXCEPT !.n_points = 0, !.n_contours = 0]

\* Stroker.export: FT_Outline_New(lib, nr_points, nr_contours, temp), then
\* temp.contents.n_points = 0 and temp.contents.n_contours = 0
Scratch(np, nc) == [FT_Outline_New(np, nc) EXCEPT !.n_points = 0, !.n_contours = 0]

\* FT_Stroker_Export / FT_Stroker_ExportBorder: the border is written after the
\* n_points points and n_contours contours temp has, and the counts grow
ExportInto(temp, e) ==
    [n_points |-> temp.n_points + e.n_points,
     n_contours |-> temp.n_contours + e.n_contours,
     points |-> Memcpy(temp.points, temp.n_points, e.points, e.n_points),
     tags |-> Memcpy(temp.tags, temp.n_points, e.tags, e.n_points),
     contours |-> Memcpy(temp.contours, temp.n_contours,
                         [i \in 1..e.n_contours |-> e.contours[i] + temp.n_points],
                         e.n_contours)]

\* the allocation made second by a call that makes two
NewRes2 == Min(FreeRes \ {NewRes})

\* Stroker.export (border = "both") and Stroker.export_border; fail names the
\* engine call that reports an error: 1 the count query, 2 FT_Outline_New of the
\* scratch outline, 3 FT_Outline_New inside Outline._append, 0 none
StrokerExport(op, query, export, s, o, border, fail) ==
    /\ IsA(s, "Stroker") /\ Live(o)
    /\ LET f == wr[s].ftobj
           pre == [NoPre EXCEPT !.cellv = o, !.mode = border]
           q == <<<<query, f>>>>
       IN  IF Deref(wr[s].lib) = "None"
           THEN /\ last' = Rec(op, s, << >>, "AssertionError", pre)
                /\ UNCHANGED <<kind, rel, ol, wr>>
           ELSE IF wr[o].kind # "Outline"
           THEN /\ last' = Rec(op, s, << >>, "TypeError", pre)
                /\ UNCHANGED <<kind, rel, ol, wr>>
           ELSE IF f = 0 \/ fail = 1
           THEN /\ last' = Rec(op, s, q, "FTException", pre)
                /\ UNCHANGED <<kind, rel, ol, wr>>
           ELSE LET cnt == Counts(strk[f], border)
                IN
                IF fail = 2 \/ ~libHandle \/ cnt[1] > MaxPoints
                THEN /\ last' = Rec(op, s, q \o <<<<"FT_Outline_New", 0>>>>, "FTException",
                                    [pre EXCEPT !.inp = cnt])
                     /\ UNCHANGED <<kind, rel, ol, wr>>
                ELSE
                /\ FreeRes # {}
                /\ LET temp == NewRes
                       blank == Scratch(cnt[1], cnt[2])
                       that == ExportInto(blank, Exported(strk[f], border))
                       made == q \o <<<<"FT_Outline_New", temp>>, <<export, temp>>>>
                       got == [pre EXCEPT !.inp = cnt, !.arg = temp, !.b = that,
                                          !.old = wr[o].ftobj,
                                          !.args = <<Len(blank.points),
                                                     Len(blank.contours)>>]
                       leak(calls, err) ==
                           /\ kind' = [kind EXCEPT ![temp] = "outline"]
                           /\ ol' = [ol EXCEPT ![temp] = that]
                           /\ last' = Rec(op, s, calls, err, got)
                           /\ UNCHANGED <<rel, wr>>
                   IN  IF wr[o].ftobj = 0
                       THEN leak(made, "AttributeError")
                       ELSE IF wr[o].lib = "None"
                       THEN leak(made, "TypeError")
                       ELSE \E this \in ReadOl(wr[o].ftobj) :
                            IF fail = 3 \/ this.n_points + that.n_points > MaxPoints
                            THEN leak(made \o <<<<"FT_Outline_New", 0>>>>, "FTException")
                            ELSE /\ FreeRes \ {temp} # {}
                                 /\ kind' = [kind EXCEPT ![temp] = "outline",
                                                         ![NewRes2] = "outline"]
                                 /\ rel' = [Released(wr[o].ftobj) EXCEPT ![temp] = 1]
                                 /\ ol' = [ol EXCEPT ![NewRes2] = AppendFill(this, that),
                                                     ![wr[o].ftobj] = EmptyOl,
                                                     ![temp] = EmptyOl]
                                 /\ wr' = [wr EXCEPT ![o].ftobj = NewRes2]
                                 /\ last' = Rec(op, s,
                                                made \o AppendCalls(NewRes2, wr[o].ftobj)
                                                     \o <<<<"FT_Outline_Done", temp>>>>,
                                                "none", [got EXCEPT !.a = this])
    /\ UNCHANGED <<fmt, cell, libAlive, libHandle, more, pure>>

\* Stroker.export(outline)
Export(s, o, fail) ==
    StrokerExport("Stroker.export", "FT_Stroker_GetCounts", "FT_Stroker_Export",
                  s, o, "both", fail)

\* Stroker.export_border(border, outline)
ExportBorder(s, o, border, fail) ==
    StrokerExport("Stroker.export_border", "FT_Stroker_GetBorderCounts",
                  "FT_Stroker_ExportBorder", s, o, border, fail)

\* ----------------------------------------------------------------- Specs
\* the one-point outline, for the runs in which outline contents play no part
OneShape == {s \in Shapes : s.n_points = 1}

\* Faces, glyphs and outlines, created and reclaimed by the runtime in any order
Next ==
    \/ LibraryDel(TRUE)
    \/ \E sts \in Status : NewFace(sts)
    \/ \E w \in Wr, sts \in Status : FaceDel(w, TRUE, sts)
    \/ \E w \in Wr, shape \in OneShape, sts \in Status : LoadGlyph(w, FALSE, shape, sts)
    \/ \E w \in Wr \cup {0, SlotOwner}, lib \in {"None", "Library"} :
           OutlineConstruct(w, lib)
    \/ \E w \in Wr : SlotOutline(w)
    \/ \E sts \in Status : OutlineNew(sts)
    \/ \E w \in Wr : OutlineDel(w, TRUE)
    \/ \E a \in Wr, b \in Wr, sts \in Status : OutlineAppend(a, b, sts)
    \/ \E w \in Wr, sts \in Status : GetGlyph(w, sts)
    \/ \E w \in Wr : GlyphDel(w, TRUE)
    \/ \E w \in Wr : GlyphOutline(w)

Spec == Init /\ [][Next]_vars

\* Outlines of every shape, appended to one another
NextAppend ==
    \/ \E sts \in Status : NewFace(sts)
    \/ \E w \in Wr, shape \in Shapes, sts \in Status : LoadGlyph(w, FALSE, shape, sts)
    \/ \E w \in Wr : SlotOutline(w)
    \/ \E sts \in Status : OutlineNew(sts)
    \/ \E w \in Wr : OutlineDel(w, TRUE)
    \/ \E a \in Wr, b \in Wr, sts \in Status : OutlineAppend(a, b, sts)

SpecAppend == Init /\ [][NextAppend]_vars

\* Every kind of wrapper, created and reclaimed by the runtime in any order
NextAll ==
    \/ LibraryDel(TRUE)
    \/ \E sts \in Status : NewFace(sts)
    \/ \E w \in Wr, sts \in Status : FaceDel(w, TRUE, sts)
    \/ \E w \in Wr, render \in BOOLEAN, shape \in OneShape, sts \in Status :
           LoadGlyph(w, render, shape, sts)
    \/ \E w \in Wr : SlotOutline(w)
    \/ \E sts \in Status : OutlineNew(sts)
    \/ \E w \in Wr : OutlineDel(w, TRUE)
    \/ \E a \in Wr, b \in Wr, sts \in Status : OutlineAppend(a, b, sts)
    \/ \E w \in Wr, sts \in Status : GetGlyph(w, sts)
    \/ \E w \in Wr : GlyphDel(w, TRUE)
    \/ \E w \in Wr, sts \in Status : GlyphCopy(w, sts)
    \/ \E w \in Wr, replace \in BOOLEAN, sts \in Status : ToBitmap(w, replace, sts)
    \/ \E w \in Wr : GlyphOutline(w)
    \/ \E w \in Wr : SlotBitmap(w)
    \/ \E w \in Wr : GlyphBitmap(w)
    \/ \E w \in Wr, sts \in Status : BitmapCopy(w, sts)
    \/ \E w \in Wr : BitmapDel(w, TRUE)
    \/ \E sts \in Status : StrokerNew(sts)
    \/ \E w \in Wr : StrokerDel(w, TRUE)
    \/ \E s \in Wr, g \in Wr, replace \in BOOLEAN, sts \in Status :
           Stroke(s, g, replace, sts)
    \/ \E s \in Wr, g \in Wr, inside \in BOOLEAN, replace \in BOOLEAN, sts \in Status :
           StrokeBorder(s, g, inside, replace, sts)

SpecAll == Init /\ [][NextAll]_vars

\* The operations that hand out engine allocations, with destructors that are
\* also called explicitly, any number of times
NextOwn ==
    \/ \E sts \in {0} : NewFace(sts)
    \/ \E w \in Wr, shape \in OneShape : LoadGlyph(w, FALSE, shape, 0)
    \/ \E w \in Wr : GetGlyph(w, 0)
    \/ \E w \in Wr, gc \in BOOLEAN : GlyphDel(w, gc)
    \/ \E w \in Wr : GlyphCopy(w, 0)
    \/ \E w \in Wr, replace \in BOOLEAN : ToBitmap(w, replace, 0)
    \/ \E sts \in {0} : StrokerNew(sts)
    \/ \E w \in Wr, gc \in BOOLEAN : StrokerDel(w, gc)
    \/ \E s \in Wr, g \in Wr, replace \in BOOLEAN : Stroke(s, g, replace, 0)
    \/ \E s \in Wr, g \in Wr, inside \in BOOLEAN, replace \in BOOLEAN :
           StrokeBorder(s, g, inside, replace, 0)
    \/ \E sts \in {0} : OutlineNew(sts)
    \/ \E w \in Wr, gc \in BOOLEAN : OutlineDel(w, gc)
    \/ \E a \in Wr, b \in Wr : OutlineAppend(a, b, 0)
    \/ \E w \in Wr : GlyphOutline(w)

SpecOwn == Init /\ [][NextOwn]_vars

\* Bitmaps of the three storage regimes, destroyed by the runtime or by an
\* explicit call of the destructor, with the Library alive or reclaimed
NextBitmap ==
    \/ LibraryDel(TRUE)
    \/ \E sts \in {0} : NewFace(sts)
    \/ \E w \in Wr, shape \in OneShape : LoadGlyph(w, TRUE, shape, 0)
    \/ \E w \in Wr : SlotBitmap(w)
    \/ \E w \in Wr, sts \in Status : BitmapCopy(w, sts)
    \/ \E w \in Wr, sts \in Status : BitmapConvert(w, sts)
    \/ \E fits \in BOOLEAN : BitmapNewWithArray(fits)
    \/ \E w \in Wr : BitmapCopyWithArray(w)
    \/ \E w \in Wr, sts \in Status : BitmapEmbolden(w, sts)
    \/ \E w \in Wr, gc \in BOOLEAN : BitmapDel(w, gc)

SpecBitmap == Init /\ [][NextBitmap]_vars

\* font files: scalable with the default charmap, scalable with a charmap that
\* starts at char code 0, and a bitmap font with an empty charmap
Fonts ==
    {DefaultFont,
     [scalable |-> TRUE, charmap |-> <<<<0, 3>>, <<65, 1>>>>],
     [scalable |-> FALSE, charmap |-> << >>]}

\* sizes a caller passes: unset, 3/128 and 12 1/128 (both halfway between two
\* 26.6 values), zero and 12.5
Widths == {None, <<3>>, <<1537>>}
Heights == {None, <<0>>, <<1600>>}

\* resolutions a caller passes: unset, zero, 72 and 96 dpi
HorzResolutions == {None, <<0>>, <<72>>}
VertResolutions == {None, <<0>>, <<96>>}

\* kerning vectors the engine reports
Kernings == {<<0, 0>>, <<64, 0>>, <<-96, 32>>}

\* the face made first, for the runs that size one face
FirstFace == {w \in Wr : w = 1}

\* A face sized with every combination of arguments, again and again
NextSize ==
    \/ \E sts \in {0} : NewFace(sts)
    \/ \E w \in FirstFace, width \in Widths, height \in Heights,
          horz \in HorzResolutions, vert \in VertResolutions, sts \in Status :
           SetCharSize(w, width, height, horz, vert, sts)

SpecSize == Init /\ [][NextSize]_vars

\* Faces of several fonts, asked for kernings in every mode
NextKerning ==
    \/ \E file \in Fonts : NewFaceFile(file, 0)
    \/ \E w \in Wr, kern_mode \in {KERNING_DEFAULT, KERNING_UNFITTED, KERNING_UNSCALED},
          v \in Kernings, sts \in Status :
           GetKerning(w, kern_mode, v, sts)

SpecKerning == Init /\ [][NextKerning]_vars

\* Faces of several fonts, enumerated by generators that interleave
NextChars ==
    \/ \E file \in Fonts : NewFaceFile(file, 0)
    \/ \E w \in Wr : CharGlyphs(w)
    \/ \E g \in Gen : GenNext(g)

SpecChars == Init /\ [][NextChars]_vars

\* A stroker set, fed and exported into outlines of both ownership modes, with
\* the engine failing at each of its calls
NextStroker ==
    \/ \E sts \in {0} : NewFace(sts)
    \/ \E w \in Wr, shape \in OneShape : LoadGlyph(w, FALSE, shape, 0)
    \/ \E w \in Wr : SlotOutline(w)
    \/ \E sts \in {0} : OutlineNew(sts)
    \/ \E sts \in {0} : StrokerNew(sts)
    \/ \E s \in Wr : StrokerSet(s)
    \/ \E s \in Wr : StrokerRewind(s)
    \/ \E s \in Wr, o \in Wr, opened \in {FALSE} : ParseOutline(s, o, opened, 0)
    \/ \E s \in Wr, o \in Wr, fail \in 0..3 : Export(s, o, fail)
    \/ \E s \in Wr, o \in Wr, border \in {"left", "right"}, fail \in {0, 3} :
           ExportBorder(s, o, border, fail)

SpecStroker == Init /\ [][NextStroker]_vars

\* Faces, outlines and strokers used before and after the Library is reclaimed
NextLate ==
    \/ LibraryDel(TRUE)
    \/ \E sts \in {0} : NewFace(sts)
    \/ \E w \in Wr, shape \in OneShape : LoadGlyph(w, FALSE, shape, 0)
    \/ \E w \in Wr : SetCharSize(w, <<1536>>, None, <<72>>, None, 0)
    \/ \E sts \in {0} : OutlineNew(sts)
    \/ \E a \in Wr, b \in Wr : OutlineAppend(a, b, 0)
    \/ \E sts \in {0} : StrokerNew(sts)
    \/ \E s \in Wr, o \in Wr : ParseOutline(s, o, FALSE, 0)
    \/ \E s \in Wr, o \in Wr : Export(s, o, 0)
    \/ \E s \in Wr, o \in Wr : ExportBorder(s, o, "left", 0)

SpecLate == Init /\ [][NextLate]_vars

\* Calls whose engine status is nonzero: opening, loading, allocating, shutting down
NextStatus ==
    \/ \E gc \in BOOLEAN, sts \in Status : LibraryDelStatus(gc, sts)
    \/ \E sts \in Status : NewFace(sts)
    \/ \E w \in Wr, shape \in OneShape, sts \in Status : LoadGlyph(w, FALSE, shape, sts)
    \/ \E sts \in Status : OutlineNew(sts)
    \/ \E w \in Wr : OutlineDel(w, TRUE)

SpecStatus == Init /\ [][NextStatus]_vars

\* the module loaded with and without the Fontconfig library
InitFind == Started /\ fc \in {"None", FcLoaded} /\ bmp = NoBitmap /\ fix = NoFix /\ mat = NoMatrix

\* Faces found by pattern, loaded and reclaimed
NextFind ==
    \/ LibraryDel(FALSE)
    \/ \E fail \in 0..5, sts \in Status : FindFace(fail, DefaultFont, sts)
    \/ \E w \in Wr, sts \in Status : FaceDel(w, TRUE, sts)
    \/ \E w \in Wr, shape \in OneShape : LoadGlyph(w, FALSE, shape, 0)

SpecFind == InitFind /\ [][NextFind]_vars

\* Outlines of every shape loaded, appended to one another and read back
NextContours ==
    \/ \E sts \in {0} : NewFace(sts)
    \/ \E w \in Wr, shape \in Shapes : LoadGlyph(w, FALSE, shape, 0)
    \/ \E w \in Wr : SlotOutline(w)
    \/ \E sts \in {0} : OutlineNew(sts)
    \/ \E a \in Wr, b \in Wr : OutlineAppend(a, b, 0)
    \/ \E w \in Wr : OutlineContours(w)

SpecContours == Init /\ [][NextContours]_vars

\* most callbacks in one decomposition
MaxCallbacks == 3

\* callbacks the engine makes: moves and lines to two points, conic and cubic arcs
\* among three points
Callbacks ==
    {[kind |-> k, pts |-> <<p>>] : k \in {"move_to", "line_to"}, p \in {<<0, 0>>, <<2, 0>>}}
    \cup {[kind |-> "conic_to", pts |-> q] :
             q \in {<< <<1, 2>>, <<2, 0>> >>, << <<2, 0>>, <<1, 2>> >>}}
    \cup {[kind |-> "cubic_to", pts |-> q] :
             q \in {<< <<2, 0>>, <<0, 0>>, <<1, 2>> >>}}

CallbackSeqs == UNION {[1..n -> Callbacks] : n \in 1..MaxCallbacks}

\* the Outline made first
FirstOutline == {w \in Wr : w = 1}

\* Outlines made and the first one drawn, whatever the engine decomposes it into
NextDraw ==
    \/ \E sts \in {0} : OutlineNew(sts)
    \/ \E w \in FirstOutline, cbs \in CallbackSeqs, sts \in {0} :
           OutlineDraw(w, cbs, sts)

SpecDraw == Init /\ [][NextDraw]_vars

\* largest numerator of the floats converted
MaxNum == 6

\* floats with whole, binary and non-binary fractional parts; those over 128 and
\* 131072 fall halfway between two values of the 26.6 and 16.16 formats
Floats == {Float(n, d) : n \in (-MaxNum)..MaxNum, d \in {1, 3, 10, 128, 131072}}

InitFixed ==
    /\ Started /\ fc = FcLoaded /\ bmp = NoBitmap /\ mat = NoMatrix
    /\ fix \in {[NoFix EXCEPT !.shift = s, !.x = x] : s \in {6, 16}, x \in Floats}

\* One float, to fixed point and back
NextFixed == ToFixed \/ FromFixed

SpecFixed == InitFixed /\ [][NextFixed]_vars

\* largest numerator of a Matrix entry
MaxEntry == 2

\* whole and fractional entries of either sign
Entries == {Float(n, d) : n \in (-MaxEntry)..MaxEntry, d \in {1, 3}}

InitMatrix ==
    /\ Started /\ fc = FcLoaded /\ bmp = NoBitmap /\ fix = NoFix
    /\ mat \in {[NoMatrix EXCEPT !.m = <<[xx |-> a, xy |-> b, yx |-> c, yy |-> d]>>] :
                  a \in Entries, b \in Entries, c \in Entries, d \in Entries}

\* One Matrix, inverted and multiplied by its inverse
NextMatrix == Inv \/ MulInv

SpecMatrix == InitMatrix /\ [][NextMatrix]_vars

\* most rows of a Bitmap drawn
MaxRows == 2

\* the bytes one row of pixels takes
RowBytes(pixel_mode, width) ==
    IF pixel_mode = PIXEL_MODE_MONO THEN CeilDiv(width, 8) ELSE width

\* Bitmaps of each pixel mode, with rows narrower than, as wide as and wider than
\* the surface rows, and upside down; byte k of the buffer holds k
Bitmaps ==
    { [pixel_mode |-> m, width |-> w, rows |-> r, pitch |-> p,
       bytes |-> [k \in 1..(r * (IF p < 0 THEN -p ELSE p)) |-> k], array |-> a] :
      m \in {PIXEL_MODE_MONO, PIXEL_MODE_GRAY, PIXEL_MODE_LCD}, w \in {3, 4, 33},
      r \in 1..MaxRows, p \in {-4, 1, 3, 4, 5, 8}, a \in BOOLEAN }

InitImage ==
    /\ Started /\ fc = FcLoaded /\ fix = NoFix /\ mat = NoMatrix
    /\ bmp \in {b \in Bitmaps :
                   (IF b.pitch < 0 THEN -b.pitch ELSE b.pitch)
                       >= RowBytes(b.pixel_mode, b.width)}

\* One Bitmap, made into image surfaces
NextImage == \E copy \in BOOLEAN : MakeImageSurface(copy)

SpecImage == InitImage /\ [][NextImage]_vars

\* ----------------------------------------------------------------- Claims
\* the latest call was a.append(b) and it returned normally
AppendDone == last.op = "Outline.append" /\ last.err = "none"

\* the FT.Outline the receiver of the latest call refers to now
Result == ol[wr[last.w].ftobj]

\* C1: after a successful a.append(b), a has p_a + p_b points and c_a + c_b
\* contours; its first p_a points and tags and its first c_a contour end-indices
\* are a's originals, and its points and tags from p_a on are b's, in order.
C1_AppendConcatenates ==
    AppendDone =>
        LET A == last.pre.a
            B == last.pre.b
        IN  /\ Result.n_points = A.n_points + B.n_points
            /\ Result.n_contours = A.n_contours + B.n_contours
            /\ Len(Result.points) = Result.n_points
            /\ Len(Result.tags) = Result.n_points
            /\ Len(Result.contours) = Result.n_contours
            /\ \A i \in 1..A.n_points :
                   Result.points[i] = A.points[i] /\ Result.tags[i] = A.tags[i]
            /\ \A i \in 1..A.n_contours : Result.contours[i] = A.contours[i]
            /\ \A i \in 1..B.n_points :
                   /\ Result.points[A.n_points + i] = B.points[i]
                   /\ Result.tags[A.n_points + i] = B.tags[i]

\* C1 witness: an append of a non-empty outline to a different non-empty outline
C1_Witness ==
    /\ AppendDone
    /\ last.pre.a.n_points > 0 /\ last.pre.b.n_points > 0
    /\ last.pre.a.points # last.pre.b.points

\* C2: after a successful a.append(b), every contour end-index that came from b
\* is b's end-index plus the number of points a had before the call.
C2_AppendOffsetsContours ==
    AppendDone =>
        \A j \in 1..last.pre.b.n_contours :
            Result.contours[last.pre.a.n_contours + j]
                = last.pre.b.contours[j] + last.pre.a.n_points

\* the positions in the latest call's engine calls at which f was called
CallsOf(f) == {i \in 1..Len(last.calls) : last.calls[i][1] = f}

\* C3, parts that hold for every argument: a successful append releases the
\* receiver's previous storage exactly once, after all six copies into the new
\* storage, and leaves the receiver the only wrapper referring to the new
\* storage, which is allocated and unreleased.
AppendReleasesOwnOnce ==
    LET new == wr[last.w].ftobj
    IN  /\ Cardinality(CallsOf("FT_Outline_Done")) = 1
        /\ \A i \in CallsOf("FT_Outline_Done") :
               /\ last.calls[i][2] = last.pre.old
               /\ \A j \in CallsOf("memcpy") : j < i
        /\ Cardinality(CallsOf("memcpy")) = 6
        /\ rel[last.pre.old] = 1
        /\ new # last.pre.old
        /\ kind[new] = "outline" /\ rel[new] = 0
        /\ last.calls[1] = <<"FT_Outline_New", new>>
        /\ \A v \in Wr : Live(v) /\ wr[v].ftobj = new => v = last.w

\* the argument's storage was neither released nor changed by the latest call
ArgumentUntouched ==
    /\ rel[last.pre.arg] = last.pre.n
    /\ \A i \in CallsOf("FT_Outline_Done") : last.calls[i][2] # last.pre.arg
    /\ ol[last.pre.arg] = last.pre.b

\* C3 as stated: ... and neither releases nor modifies the argument outline's
\* storage, whatever the argument is.
C3_AppendOwnership_Original ==
    AppendDone => AppendReleasesOwnOnce /\ ArgumentUntouched

\* C3 as amended: the argument's storage is neither released nor modified when
\* the argument is another outline than the receiver; a.append(a) releases the
\* storage its argument had.
C3_AppendOwnership ==
    AppendDone =>
        /\ AppendReleasesOwnOnce
        /\ last.pre.cellv # last.w => ArgumentUntouched

\* C3 witness: an append of another, non-empty outline to a non-empty outline
C3_Witness ==
    /\ AppendDone
    /\ last.pre.cellv # last.w
    /\ last.pre.a.n_points > 0 /\ last.pre.b.n_points > 0

\* the engine's release calls
ReleaseCalls ==
    {"FT_Done_Face", "FT_Done_Glyph", "FT_Outline_Done", "FT_Bitmap_Done",
     "FT_Stroker_Done"}

\* the latest call issued a release call
IssuedRelease == \E i \in 1..Len(last.calls) : last.calls[i][1] \in ReleaseCalls

\* C4: no release call is issued once the Library's FT_Done_FreeType has run.
C4_NoReleaseAfterLibraryDone == last.late => ~IssuedRelease

\* the live wrappers that manage allocation r: they release it when destroyed
Owners(r) ==
    {w \in Wr :
        /\ Live(w) /\ wr[w].ftobj # 0
        /\ \/ wr[w].kind = "Glyph" /\ cell[wr[w].ftobj] = r
           \/ wr[w].kind \in {"Face", "Stroker"} /\ wr[w].ftobj = r
           \/ wr[w].kind \in {"Outline", "Bitmap"} /\ wr[w].owner = 0 /\ wr[w].ftobj = r}

\* C5: every engine allocation is managed by at most one wrapper and is
\* released at most once.
C5_SingleOwnerSingleRelease ==
    \A r \in Res : Cardinality(Owners(r)) <= 1 /\ rel[r] <= 1

\* C6: Glyph.to_bitmap with replace false returns a Glyph on another engine
\* object than the original's, and the original still refers to the engine
\* object it had, which is not released.
C6_ToBitmapCopyLeavesOriginal ==
    (last.op = "Glyph.to_bitmap" /\ last.err = "none" /\ last.pre.arg # 0) =>
        /\ cell[wr[last.pre.arg].ftobj] # cell[wr[last.w].ftobj]
        /\ cell[wr[last.w].ftobj] = last.pre.old
        /\ rel[last.pre.old] = 0

\* C7: while an Outline or Bitmap obtained through Face.glyph is alive, no
\* FT_Done_Face has been issued on the face whose slot it views.
C7_SlotViewKeepsFace ==
    \A w \in Wr :
        (Live(w) /\ wr[w].kind \in {"Outline", "Bitmap"} /\ wr[w].owner = SlotOwner)
            => rel[wr[w].ftobj] = 0

\* C8: the destructor of an Outline whose owner is set issues no engine call.
C8_OwnedOutlineNeverReleases ==
    (last.op = "Outline.__del__" /\ last.pre.arg # 0) =>
        last.calls = << >> /\ last.err = "none"

\* C8 witness: an Outline of a Glyph destroyed after the Library has gone
C8_Witness ==
    /\ last.op = "Outline.__del__"
    /\ last.pre.arg \in Wr
    /\ ~libAlive

C10_OutlineOwnershipModes ==
    /\ \A w \in Wr :
           IsA(w, "Outline") =>
               \/ wr[w].owner # 0 /\ wr[w].lib = "None"
               \/ wr[w].owner = 0 /\ wr[w].lib = "Library"
    /\ (last.op = "Outline.__init__" /\ (last.pre.arg # 0) = (last.pre.n # 0)) =>
           last.err # "none" /\ last.w = 0

\* C10 witness: outlines of both modes alive, and a construction with both an
\* owner and a Library refused
C10_Witness ==
    /\ last.op = "Outline.__init__" /\ last.pre.arg # 0 /\ last.pre.n # 0
    /\ last.err = "AssertionError"
    /\ \E w \in Wr : IsA(w, "Outline") /\ wr[w].owner # 0
    /\ \E w \in Wr : IsA(w, "Outline") /\ wr[w].owner = 0

\* the latest call was the destructor of a Bitmap of the given storage regime
BitmapDestroyed(mode) == last.op = "Bitmap.__del__" /\ last.pre.mode = mode

\* C11: a Bitmap made by Bitmap.copy or Bitmap.convert holds a weak reference to
\* the Library; its destructor issues FT_Bitmap_Done on it, once, without error,
\* when the Library is alive, and issues nothing, without error, when it is gone.
C11_EngineBitmapReleasedOnce ==
    /\ \A w \in Wr :
           (IsA(w, "Bitmap") /\ StorageOf(w) = "engine") => wr[w].lib = "Library"
    /\ (BitmapDestroyed("engine") /\ last.pre.old # 0) =>
           /\ last.err = "none"
           /\ last.calls = IF libAlive THEN <<<<"FT_Bitmap_Done", last.pre.old>>>>
                           ELSE << >>
           /\ libAlive => rel[last.pre.old] = 1

\* C12: the destructor of a Bitmap whose storage is a Python array issues no
\* engine call, and no FT_Bitmap_Done is ever issued against such storage.
C12_ArrayBitmapNeverReleased ==
    /\ BitmapDestroyed("array") => last.calls = << >> /\ last.err = "none"
    /\ \A r \in Res : kind[r] = "array" => rel[r] = 0

\* C12 witness: an array Bitmap destroyed while the Library is alive, after an
\* operation on it
C12_Witness ==
    /\ BitmapDestroyed("array")
    /\ libAlive /\ libHandle
    /\ \E r \in Res : kind[r] = "array" /\ r # last.pre.old

\* the latest call was Face.set_char_size
SizeCall == last.op = "Face.set_char_size"

\* argument i of the latest call (width, height, horz_resolution,
\* vert_resolution) was left unset
Unset(i) == last.pre.inp[i] = None

\* C17: Face.set_char_size with width and height both unset, or with both
\* resolutions unset, fails, issues no engine call and leaves the face's active
\* size as it was.
C17_SizeArgsRefused ==
    (SizeCall /\ ((Unset(1) /\ Unset(2)) \/ (Unset(3) /\ Unset(4)))) =>
        /\ last.err # "none"
        /\ last.calls = << >>
        /\ size[last.pre.old] = last.pre.was

\* C17 witness: a refused call, resolutions unset and a width given, on a face
\* whose size had been set before
C17_Witness ==
    /\ SizeCall
    /\ ~Unset(1) /\ Unset(3) /\ Unset(4)
    /\ last.pre.was # NoSize

\* r is the 26.6 value of the real number x (in 128ths): the integer nearest to
\* x * 64, the even one of the two when x * 64 lies halfway
Is26_6(r, x) ==
    /\ r # None /\ x # None
    /\ 2 * r[1] - x[1] \in -1..1
    /\ 2 * r[1] # x[1] => r[1] % 2 = 0

\* C18: whenever Face.set_char_size accepts its arguments, FT_Set_Char_Size gets
\* the 26.6 values of width and height and both resolutions, where an unset
\* width, height or resolution takes the value of its given counterpart and a
\* given one keeps its own value.
C18_SizeArgsPassed ==
    (SizeCall /\ last.calls # << >>) =>
        LET in == last.pre.inp
            given(i, j) == IF in[i] # None THEN in[i] ELSE in[j]
        IN  /\ Len(last.pre.args) = 4
            /\ Is26_6(last.pre.args[1], given(1, 2))
            /\ Is26_6(last.pre.args[2], given(2, 1))
            /\ last.pre.args[3] = given(3, 4) /\ last.pre.args[3] # None
            /\ last.pre.args[4] = given(4, 3) /\ last.pre.args[4] # None
            /\ last.err = "none" => size[last.pre.old] = last.pre.args

\* C18 witness: an accepted call with a fractional width halfway between two
\* 26.6 values, height unset and one resolution unset
C18_Witness ==
    /\ SizeCall /\ last.err = "none"
    /\ last.pre.inp[1] = <<3>> /\ Unset(2) /\ Unset(3) /\ ~Unset(4)

\* the pairs a complete enumeration of charmap cm yields: those before the
\* first pair whose glyph index is zero
UpToZero(cm) ==
    LET z == {i \in 1..Len(cm) : cm[i][2] = 0}
    IN  IF z = {} THEN cm ELSE SubSeq(cm, 1, Min(z) - 1)

\* C19: what a generator of Face.char_glyphs has yielded so far is the start of
\* the engine's enumeration of its face's charmap, in order and without a pair
\* of glyph index zero; a finished generator has yielded all of it (nothing for
\* an empty charmap); and this holds for each generator whatever other
\* generators on the same face have done.
C19_CharGlyphsEnumerates ==
    /\ \A g \in Gen :
           gen[g].st # "none" =>
               LET e == UpToZero(CharmapOf(wr[gen[g].face].ftobj))
                   out == gen[g].out
               IN  /\ Len(out) <= Len(e)
                   /\ out = SubSeq(e, 1, Len(out))
                   /\ \A i \in 1..Len(out) : out[i][2] # 0
                   /\ gen[g].st = "done" => out = e
                   /\ gen[g].st = "new" => out = << >>
                   /\ gen[g].st = "suspended" => out # << >>
    /\ (last.op = "next" /\ last.err = "none") =>
           /\ gen[last.pre.n].out # << >>
           /\ last.pre.ret = gen[last.pre.n].out[Len(gen[last.pre.n].out)]

\* C19 witness: two generators on one face, one finished after two pairs, the
\* other started later or earlier and suspended after its first pair
C19_Witness ==
    \E g \in Gen, h \in Gen :
        /\ g # h /\ gen[g].face = gen[h].face
        /\ gen[g].st = "done" /\ Len(gen[g].out) = 2
        /\ gen[h].st = "suspended" /\ Len(gen[h].out) = 1

\* C20: Face.get_kerning returns the engine's vector divided by 64 for every
\* kerning mode but KERNING_UNSCALED, and the engine's integers as they are
\* exactly for KERNING_UNSCALED.
C20_KerningUnits ==
    (last.op = "Face.get_kerning" /\ last.err = "none") =>
        LET v == last.pre.args
            den == IF last.pre.inp[1] = KERNING_UNSCALED THEN 1 ELSE 64
        IN  last.pre.ret = [x |-> [num |-> v[1], den |-> den],
                            y |-> [num |-> v[2], den |-> den]]

\* the operations that read or change data through a wrapper
DataAccess ==
    {"Face.load_glyph", "Face.set_char_size", "Outline.append", "Stroker.export",
     "Stroker.export_border", "Stroker.parse_outline"}

\* C13: a data-access operation called after the Library has been destroyed
\* fails with an error and issues no engine call.
C13_NoAccessAfterLibrary ==
    (last.late /\ last.op \in DataAccess) => last.err # "none" /\ last.calls = << >>

\* the latest call was an export of the stroker
ExportCall == last.op \in {"Stroker.export", "Stroker.export_border"}

\* the allocations the latest call made
AllocatedBy ==
    {last.calls[i][2] : i \in CallsOf("FT_Outline_New")} \ {0}

\* C14: after a failed Outline.append, Stroker.export or Stroker.export_border,
\* every allocation the call made has been released.
C14_FailedCallLeavesNothing ==
    ((ExportCall \/ last.op = "Outline.append") /\ last.err # "none") =>
        \A r \in AllocatedBy : rel[r] > 0

\* the engine calls of a completed export, in the order the protocol asks for
ProtocolCalls(query, export, stroker, scratch, merged, old) ==
    <<<<query, stroker>>, <<"FT_Outline_New", scratch>>, <<export, scratch>>>>
    \o AppendCalls(merged, old)
    \o <<<<"FT_Outline_Done", scratch>>>>

\* C15: a successful export queries the counts, allocates a scratch outline of
\* exactly those counts, exports into it, merges it into the destination by
\* append and releases it, in this order, each once, the release last.
C15_ExportProtocol ==
    (ExportCall /\ last.err = "none") =>
        LET both == last.op = "Stroker.export"
            dest == last.pre.cellv
        IN  /\ last.calls =
                   ProtocolCalls(IF both THEN "FT_Stroker_GetCounts"
                                 ELSE "FT_Stroker_GetBorderCounts",
                                 IF both THEN "FT_Stroker_Export"
                                 ELSE "FT_Stroker_ExportBorder",
                                 wr[last.w].ftobj, last.pre.arg, wr[dest].ftobj,
                                 last.pre.old)
            /\ last.pre.args = last.pre.inp
            /\ last.pre.inp = Counts(strk[wr[last.w].ftobj], last.pre.mode)
            /\ last.pre.b.n_points = last.pre.inp[1]
            /\ last.pre.b.n_contours = last.pre.inp[2]
            /\ ol[wr[dest].ftobj].n_points = last.pre.a.n_points + last.pre.inp[1]
            /\ rel[last.pre.arg] = 1
            /\ wr[dest].ftobj \notin {last.pre.arg, last.pre.old}

\* C15 witness: both borders of a parsed outline, two points in two contours,
\* exported into an outline
C15_Witness ==
    /\ last.op = "Stroker.export" /\ last.err = "none"
    /\ last.pre.inp = <<2, 2>>
    /\ ol[wr[last.pre.cellv].ftobj].points = <<41, 42>>

\* C16: Stroker.parse_outline on a Stroker on which set has not been called
\* fails with an error.
C16_ParseNeedsSet ==
    (last.op = "Stroker.parse_outline" /\ last.pre.inp = <<FALSE>>) =>
        last.err # "none"

\* C21: every status an engine call returned went through check: all zero and the
\* call returned normally, or a nonzero one and the call raised the FTException
\* made from that code
C21_StatusChecked ==
    \A i \in DOMAIN last.pre.sts :
        IF last.pre.sts[i] = 0
        THEN last.pre.exc = << >>
        ELSE /\ last.err = "FTException"
             /\ last.pre.exc = <<FTException(last.pre.sts[i])>>

\* C22: with fc None, find_face raises NotImplementedError having called neither
\* Fontconfig nor the engine
C22_FindFaceNeedsFontconfig ==
    (last.op = "Library.find_face" /\ fc = "None") =>
        /\ last.err = "NotImplementedError"
        /\ last.calls = << >>

\* C22 witness: find_face called without Fontconfig, after the library was shut
\* down as well
C22_Witness ==
    /\ last.op = "Library.find_face" /\ fc = "None"
    /\ last.late

\* C23: embolden and convert on a Bitmap with array storage raise an error and
\* issue no engine call
C23_ArrayStorageRejected ==
    (last.op \in {"Bitmap.embolden", "Bitmap.convert"} /\ last.pre.mode = "array") =>
        /\ last.err # "none"
        /\ last.calls = << >>

\* the surface the latest make_image_surface call made, or its failure
Surface == last.pre.ret[1]

\* C24: for a MONO or GRAY Bitmap with a pitch that is not negative,
\* make_image_surface returns a surface, and row i of the surface starts with the
\* pixel bytes of row i of the Bitmap, whether or not pitch and stride are equal
C24_SurfaceFromAnyPitch ==
    (/\ last.op = "Bitmap.make_image_surface"
     /\ bmp.pixel_mode \in {PIXEL_MODE_MONO, PIXEL_MODE_GRAY}
     /\ bmp.pitch >= 0) =>
        /\ last.err = "none"
        /\ \A i \in 0..(bmp.rows - 1) :
              \A j \in 1..RowBytes(bmp.pixel_mode, bmp.width) :
                  Surface.pixels[i * Surface.stride + j] = bmp.bytes[i * bmp.pitch + j]

\* the callbacks of the latest draw, and the calls it made on g
Cbs == last.pre.inp
Out == last.pre.ret

\* the point a callback ends at, and the point a call on g ends at
EndOf(cb) == From_ft_int(cb.pts[Len(cb.pts)])
EndAt(call) == call.at[Len(call.at)]

\* two thirds of the way from p to c, coordinate by coordinate
TwoThirds(p, c) ==
    LET part(a, b) == FloatAdd(a, FloatMul(Float(2, 3), FloatSub(b, a)))
    IN  [x |-> part(p.x, c.x), y |-> part(p.y, c.y)]

\* C25: in a decomposition that begins with a move-to, a conic-to with control
\* point C and destination P3 reported while the current point is P0 (the end of
\* the callback before it) makes the one call curve_to(P1, P2, P3) with
\* P1 = P0 + 2/3 (C - P0) and P2 = P3 + 2/3 (C - P3)
C25_ConicToCubic ==
    (last.op = "Outline.draw" /\ Cbs # << >> /\ Cbs[1].kind = "move_to") =>
        /\ Len(Out) = Len(Cbs)
        /\ \A i \in 2..Len(Cbs) :
              Cbs[i].kind = "conic_to" =>
                  LET P0 == EndOf(Cbs[i - 1])
                      C == From_ft_int(Cbs[i].pts[1])
                      P3 == From_ft_int(Cbs[i].pts[2])
                  IN  Out[i] = SinkCall("curve_to",
                                        <<TwoThirds(P0, C), TwoThirds(P3, C), P3>>)

\* C25 witness: P0 = (0, 0), C = (1, 2), P3 = (2, 0) drawn as the curve through
\* P1 = (2/3, 4/3) and P2 = (4/3, 4/3)
C25_Witness ==
    /\ last.op = "Outline.draw"
    /\ Cbs = << [kind |-> "move_to", pts |-> << <<0, 0>> >>],
                [kind |-> "conic_to", pts |-> << <<1, 2>>, <<2, 0>> >>] >>
    /\ Out[2] = SinkCall("curve_to",
                         << [x |-> [num |-> 2, den |-> 3], y |-> [num |-> 4, den |-> 3]],
                            [x |-> [num |-> 4, den |-> 3], y |-> [num |-> 4, den |-> 3]],
                            [x |-> [num |-> 2, den |-> 1], y |-> [num |-> 0, den |-> 1]] >>)

\* the call on g that a callback of each kind makes
SinkOp(k) == IF k \in {"conic_to", "cubic_to"} THEN "curve_to" ELSE k

\* C29: for a decomposition that begins with a move-to, draw makes one call on g
\* per callback, in the order of the callbacks and of the matching kind, each
\* ending where its callback ends; and the first control point of the curve made
\* for a conic-to is computed from the end point of the call made just before it
C29_DrawFollowsDecomposition ==
    (last.op = "Outline.draw" /\ Cbs # << >> /\ Cbs[1].kind = "move_to") =>
        /\ Len(Out) = Len(Cbs)
        /\ \A i \in 1..Len(Cbs) :
              /\ Out[i].op = SinkOp(Cbs[i].kind)
              /\ EndAt(Out[i]) = EndOf(Cbs[i])
              /\ Cbs[i].kind \in {"move_to", "line_to"} => Len(Out[i].at) = 1
              /\ Cbs[i].kind = "cubic_to" =>
                     Out[i].at = [j \in 1..3 |-> From_ft_int(Cbs[i].pts[j])]
              /\ Cbs[i].kind = "conic_to" =>
                     Out[i].at[1] =
                         TwoThirds(EndAt(Out[i - 1]), From_ft_int(Cbs[i].pts[1]))

\* C29 witness: a conic-to drawn from the end of a line-to, which is not where
\* the move-to before it went
C29_Witness ==
    /\ last.op = "Outline.draw" /\ Len(Cbs) = 3 /\ Len(Out) = 3
    /\ Cbs[1].kind = "move_to" /\ Cbs[2].kind = "line_to" /\ Cbs[3].kind = "conic_to"
    /\ EndOf(Cbs[1]) # EndOf(Cbs[2])
    /\ Out[3].at[1] # TwoThirds(EndOf(Cbs[1]), From_ft_int(Cbs[3].pts[1]))

\* how far the float that came back is from the one that went in
RoundTripError == FloatSub(fix.back[1], fix.x)

\* C26: a float taken to 26.6 or 16.16 fixed point and back is within
\* 2^-(shift+1) of what it was
C26_FixedRoundTrip ==
    fix.back # << >> =>
        Abs(RoundTripError.num) * 2 ^ (fix.shift + 1) <= RoundTripError.den

\* C26 witness: a float halfway between two 16.16 values, which comes back exactly
\* 2^-17 away
C26_Witness ==
    /\ fix.back # << >> /\ fix.shift = 16
    /\ RoundTripError.num # 0
    /\ Abs(RoundTripError.num) * 2 ^ 17 = RoundTripError.den

\* Matrix(1, 0, 0, 1)
Identity == [xx |-> Float(1, 1), xy |-> Float(0, 1), yx |-> Float(0, 1), yy |-> Float(1, 1)]

\* C27: for a Matrix M whose determinant is not zero, M * M.inv() is the identity
C27_InverseIsInverse ==
    /\ mat.prod # << >> => mat.prod[1] = Identity
    /\ (mat.m # << >> /\ MatrixDet(mat.m[1]).num # 0) => mat.err = "none"

\* C27 witness: the product taken for a Matrix with no zero entry and an inverse
\* with fractional entries
C27_Witness ==
    /\ mat.prod # << >>
    /\ \A e \in {mat.m[1].xx, mat.m[1].xy, mat.m[1].yx, mat.m[1].yy} : e.num # 0
    /\ mat.inv[1].xy.den > 1

\* the points of indices from..to (counted from 0) of an outline, as contours
\* reports a point
PointRange(o, from, to) == [i \in 1..(to - from + 1) |-> CurvePoint(o, from + i - 1)]

\* C28: contours returns one tuple per contour, and contour k holds the points of
\* indices end[k-1]+1 (0 for the first) to end[k], in order
C28_ContoursPartitionPoints ==
    (last.op = "Outline.contours" /\ last.err = "none") =>
        LET o == last.pre.a
        IN  /\ Len(last.pre.ret) = o.n_contours
            /\ \A k \in 1..o.n_contours :
                  last.pre.ret[k] =
                      PointRange(o, IF k = 1 THEN 0 ELSE o.contours[k - 1] + 1,
                                 o.contours[k])

\* C30: append on an Outline that has an owner (a view into a GlyphSlot or a Glyph)
\* raises, makes no engine call, so releases nothing, and leaves the wrapper
\* pointing at the storage it pointed at
C30_ViewAppendLeavesContainer ==
    (last.op = "Outline.append" /\ wr[last.w].owner # 0) =>
        /\ last.err # "none"
        /\ last.calls = << >>
        /\ wr[last.w].ftobj = last.pre.old

\* C30 witness: append refused on a view that points into a container, with an
\* argument that has storage of its own
C30_Witness ==
    /\ last.op = "Outline.append" /\ wr[last.w].owner # 0
    /\ wr[last.w].ftobj # 0
    /\ last.err = "TypeError"

====
